---- MODULE Spec2Model ----
(***************************************************************************)
(* State-machine model of the VA Design System Monitor engine              *)
(* (src/lib/index.js): the fetch layer with timeout and bounded retry, the *)
(* component cache of one VAComponentMonitor instance, the metadata parse, *)
(* the classifier, the lookup operations and the semantic analysis of a    *)
(* component's properties.                                                 *)
(*                                                                         *)
(* JavaScript runs one continuation at a time: an action of this model is  *)
(* the code that runs between two suspension points (await) of one call.   *)
(* Several getComponents calls on one instance interleave at these points. *)
(***************************************************************************)
EXTENDS Integers, Sequences, FiniteSets, TLC

VARIABLES
    components,      \* this.components: Map interfaceName -> component
    lastFetch,       \* this.lastFetch: NULL or <<timestamp>>
    cacheTimeout,    \* this.cacheTimeout
    requestTimeout,  \* this.requestTimeout
    retryAttempts,   \* this.retryAttempts
    retryDelay,      \* this.retryDelay
    clock,           \* the value Date.now() returns
    ticks,           \* number of clock advances so far
    call,            \* per caller: the frame of its getComponents call
    observed,        \* what the last step did to a call: started, retrying, settled
    cl_category,     \* classifier input: maturity category
    cl_level,        \* classifier input: maturity level
    cl_status,       \* classifier output of determineComponentStatus
    cl_rec,          \* classifier output of getRecommendation
    pm_content,      \* parse: the document text handed to the parse
    pm_blocks,       \* parse: NULL or <<what extractComponentBlocks returned>>
    pm_components,   \* parse: NULL or <<what parseComponentMetadata returned>>
    ip_body,         \* property parse: the lines of an interface body
    ip_properties,   \* property parse: NULL or <<what parseInterfaceProperties returned>>
    sa_properties,   \* semantics: the properties of the component analysed
    sa_analysis,     \* semantics: NULL or <<what analyzeComponentSemantics returned>>
    ge_call,         \* examples: the example operation called and what it gave
    cfg_options,     \* the options the constructor was called with, when recorded
    api              \* the lookup operation in progress and what it gave

vars == <<components, lastFetch, cacheTimeout, requestTimeout, retryAttempts,
          retryDelay, clock, ticks, call, observed,
          cl_category, cl_level, cl_status, cl_rec,
          pm_content, pm_blocks, pm_components, ip_body, ip_properties,
          sa_properties, sa_analysis, ge_call, cfg_options, api>>

monitorVars == <<components, lastFetch, cacheTimeout, requestTimeout,
                 retryAttempts, retryDelay, clock, ticks, call, observed>>

classifyVars == <<cl_category, cl_level, cl_status, cl_rec>>

parseVars == <<pm_content, pm_blocks, pm_components>>

propsVars == <<ip_body, ip_properties>>

semanticsVars == <<sa_properties, sa_analysis, ge_call>>

\* the variables of the functions that are studied on their own, and the
\* record of the constructor's options
pureVars == <<classifyVars, parseVars, propsVars, semanticsVars, cfg_options>>

-----------------------------------------------------------------------------
(* Program constants *)

DEFAULT_TIMEOUT == 10000
DEFAULT_CACHE_TIMEOUT == 300000
MAX_CACHE_AGE == 3600000
DEFAULT_RETRY_ATTEMPTS == 2
DEFAULT_RETRY_DELAY == 2000
MIN_TIMEOUT == 1000
MAX_TIMEOUT == 300000
MAX_RETRY_ATTEMPTS == 5
MIN_RETRY_DELAY == 1000
MAX_RETRY_DELAY == 10000
MIN_CONTENT_LENGTH == 100

(* Bounds of the model *)

MaxTicks == 2
StartTime == 1
MaxItems == 3

Callers == {1, 2}

\* JavaScript null / undefined, and a present value v, as sequences
NULL == <<>>
Some(v) == <<v>>
ValueOf(b) == b[1]

Min(a, b) == IF a < b THEN a ELSE b
Max(a, b) == IF a > b THEN a ELSE b

\* ToNumber of a nullable timestamp: null converts to 0
ToNumber(b) == IF b = NULL THEN 0 ELSE ValueOf(b)
\* ToBoolean of a nullable number: null and 0 are falsy
Truthy(b) == IF b = NULL THEN FALSE ELSE ValueOf(b) # 0

-----------------------------------------------------------------------------
(* Strings.  A JavaScript string is a TLA+ string; the methods of          *)
(* String.prototype the engine uses are computed character by character.   *)

\* String.prototype.charAt: the empty string outside the string
CharAt(s, i) == IF i >= 1 /\ i <= Len(s) THEN SubSeq(s, i, i) ELSE ""

\* the characters \s matches that occur inside one line
Whitespace == {" ", "\t"}

\* the first index at or after i whose character is not in the set S
\* (the index after the end of s when there is none)
SkipChars(s, i, S) ==
    IF i > Len(s) THEN i ELSE
    CHOOSE j \in i..(Len(s) + 1) :
        /\ \A k \in i..(j - 1) : CharAt(s, k) \in S
        /\ (j = Len(s) + 1 \/ CharAt(s, j) \notin S)

\* the first index at or after i whose character is in the set S
\* (the index after the end of s when there is none)
FindChar(s, i, S) ==
    IF i > Len(s) THEN i ELSE
    CHOOSE j \in i..(Len(s) + 1) :
        /\ \A k \in i..(j - 1) : CharAt(s, k) \notin S
        /\ (j = Len(s) + 1 \/ CharAt(s, j) \in S)

\* the last index whose character is not whitespace (0 when there is none)
LastNonSpace(s) ==
    CHOOSE j \in 0..Len(s) :
        /\ \A k \in (j + 1)..Len(s) : CharAt(s, k) \in Whitespace
        /\ (j = 0 \/ CharAt(s, j) \notin Whitespace)

trimStart(s) == SubSeq(s, SkipChars(s, 1, Whitespace), Len(s))

trim(s) == SubSeq(s, SkipChars(s, 1, Whitespace), LastNonSpace(s))

startsWith(s, p) == Len(p) <= Len(s) /\ SubSeq(s, 1, Len(p)) = p

endsWith(s, p) == Len(p) <= Len(s) /\ SubSeq(s, Len(s) - Len(p) + 1, Len(s)) = p

\* String.prototype.indexOf from position from (1-based; 0 when not found)
indexOfFrom(s, p, from) ==
    LET places == {i \in from..(Len(s) - Len(p) + 1) : SubSeq(s, i, i + Len(p) - 1) = p}
    IN IF places = {} THEN 0
       ELSE CHOOSE i \in places : \A j \in places : i <= j

indexOf(s, p) == indexOfFrom(s, p, 1)

includes(s, p) == indexOf(s, p) # 0

UpperCaseLetters == "ABCDEFGHIJKLMNOPQRSTUVWXYZ"
LowerCaseLetters == "abcdefghijklmnopqrstuvwxyz"

\* the character c with the letters of from replaced by those of to
MapChar(c, from, to) ==
    IF indexOf(from, c) = 0 THEN c
    ELSE CharAt(to, indexOf(from, c))

RECURSIVE MapChars(_, _, _)
MapChars(s, from, to) ==
    IF s = "" THEN ""
    ELSE IF Len(s) = 1 THEN MapChar(s, from, to)
    ELSE MapChars(SubSeq(s, 1, Len(s) \div 2), from, to)
            \o MapChars(SubSeq(s, Len(s) \div 2 + 1, Len(s)), from, to)

toLowerCase(s) == MapChars(s, UpperCaseLetters, LowerCaseLetters)

toUpperCase(s) == MapChars(s, LowerCaseLetters, UpperCaseLetters)

-----------------------------------------------------------------------------
(* Classifier *)

Categories == {"use", "caution", "undefined", "deprecated"}
Levels == {"best_practice", "deployed", "candidate", "available", "unknown",
           "undefined", "beta"}
Statuses == {"RECOMMENDED", "STABLE", "EXPERIMENTAL", "AVAILABLE_WITH_ISSUES",
             "USE_WITH_CAUTION", "UNKNOWN"}

\* mutant: the level is looked at before the category
determineComponentStatusLevelFirst(category, level) ==
    CASE level = "best_practice" -> "RECOMMENDED"
      [] level = "deployed" -> "STABLE"
      [] level = "candidate" -> "EXPERIMENTAL"
      [] level = "available" -> "AVAILABLE_WITH_ISSUES"
      [] category = "caution" -> "USE_WITH_CAUTION"
      [] OTHER -> "UNKNOWN"

determineComponentStatus(category, level) ==
    IF category = "caution" THEN "USE_WITH_CAUTION"
    ELSE CASE level = "best_practice" -> "RECOMMENDED"
           [] level = "deployed" -> "STABLE"
           [] level = "candidate" -> "EXPERIMENTAL"
           [] level = "available" -> "AVAILABLE_WITH_ISSUES"
           [] OTHER -> "UNKNOWN"

getRecommendation(category, level) ==
    IF category = "caution"
    THEN "Use with caution - may have known issues or be under evaluation"
    ELSE CASE level = "best_practice" ->
                "Recommended for production use - stable and follows best practices"
           [] level = "deployed" -> "Safe for production use - actively deployed"
           [] level = "candidate" -> "Experimental - use in development/testing only"
           [] level = "available" ->
                "Available but may have issues - test thoroughly before use"
           [] OTHER -> "Status unknown - verify before use"

-----------------------------------------------------------------------------
(* Documents and the metadata parse.  A document is the text served at the *)
(* definitions URL, reduced to what the parse reads from it: its length,   *)
(* its documentation comments and Va* interface blocks in text order, and  *)
(* its tag-name entries ("va-x": LocalJSX.VaX) in text order.  A comment   *)
(* is the list of its tag lines (" * @tag<rest of the line>"); an          *)
(* interface block is its name and its body, split into lines.  Every tag  *)
(* of a modelled comment is followed by white space and at least one more  *)
(* character on its line, and a documentation comment inside an interface  *)
(* body carries no tags.                                                   *)

TagLine(tag, rest) == [tag |-> tag, rest |-> rest]

Comment(lines) == [kind |-> "comment", lines |-> lines]

Interface(name, body) ==
    [kind |-> "interface", interfaceName |-> name, interfaceBody |-> body]

Tags(name, category, level) ==
    Comment(<< TagLine("componentName", " " \o name),
               TagLine("maturityCategory", " " \o category),
               TagLine("maturityLevel", " " \o level) >>)

DocA ==
    [len |-> 5000,
     items |-> << Tags("Button", "use", "best_practice"),
                  Interface("VaButton", << "", "  text?: string;" >>),
                  Tags("Alert", "caution", "deployed"),
                  Interface("VaAlert", << "", "  visible: boolean;" >>),
                  Comment(<< TagLine("componentName", " Card"),
                             TagLine("maturityCategory", " use") >>),
                  Interface("VaCard", << "" >>) >>,
     tagEntries |-> << <<"va-button", "VaButton">>, <<"va-alert", "VaAlert">>,
                       <<"va-card", "VaCard">> >>]

\* the interface VaButton declared twice, with different bodies
DocB ==
    [len |-> 100,
     items |-> << Tags("Button", "use", "deployed"),
                  Interface("VaButton", << "", "  text?: string;" >>),
                  Tags("Button", "use", "candidate"),
                  Interface("VaButton", << "", "  label?: string;" >>) >>,
     tagEntries |-> << >>]

\* long enough, but no interface block carries the three required tags
DocNoComponents ==
    [len |-> 4000,
     items |-> << Interface("VaCard", << "" >>),
                  Comment(<< TagLine("componentName", " Link") >>),
                  Interface("VaLink", << "" >>) >>,
     tagEntries |-> << <<"va-link", "VaLink">> >>]

\* one character short of the accepted length, with an annotated block
DocShort ==
    [len |-> 99,
     items |-> << Tags("Link", "use", "available"),
                  Interface("VaLink", << "" >>) >>,
     tagEntries |-> << <<"va-link", "VaLink">> >>]

DocEmpty == [len |-> 0, items |-> << >>, tagEntries |-> << >>]

\* a component of every status; Button Icon, which contains the name of
\* Button, comes first; Card and Table have no tag-name entry
DocLookup ==
    [len |-> 6000,
     items |-> << Tags("Button Icon", "use", "candidate"),
                  Interface("VaButtonIcon", << "" >>),
                  Tags("Button", "use", "best_practice"),
                  Interface("VaButton", << "" >>),
                  Tags("Alert", "caution", "deployed"),
                  Interface("VaAlert", << "" >>),
                  Tags("Link", "use", "available"),
                  Interface("VaLink", << "" >>),
                  Tags("Card", "use", "beta"),
                  Interface("VaCard", << "" >>),
                  Tags("Table", "use", "deployed"),
                  Interface("VaTable", << "" >>) >>,
     tagEntries |-> << <<"va-button-icon", "VaButtonIcon">>, <<"va-button", "VaButton">>,
                       <<"va-alert", "VaAlert">>, <<"va-link", "VaLink">> >>]

Docs == {DocA, DocB, DocNoComponents, DocShort, DocEmpty}

\* a Map: its entries <<key, value>> in insertion order, which is the order
\* a for-of loop and values() visit them in
EmptyMap == << >>

MapKeys(m) == {m[i][1] : i \in DOMAIN m}

\* Map.prototype.has
MapHas(m, k) == k \in MapKeys(m)

MapIndex(m, k) == CHOOSE i \in DOMAIN m : m[i][1] = k

\* Map.prototype.get of a key the map has
MapGet(m, k) == m[MapIndex(m, k)][2]

\* Array.from(m.values())
MapValues(m) == [i \in DOMAIN m |-> m[i][2]]

NoTagName == "undefined"

\* Map.prototype.set: a key the map has keeps its place
MapSet(m, k, v) ==
    IF MapHas(m, k) THEN [m EXCEPT ![MapIndex(m, k)] = <<k, v>>]
    ELSE Append(m, <<k, v>>)

RequiredTags == {"componentName", "maturityCategory", "maturityLevel"}

\* Array.prototype.join
RECURSIVE join(_, _)
join(lines, separator) ==
    IF lines = << >> THEN ""
    ELSE IF Len(lines) = 1 THEN Head(lines)
    ELSE Head(lines) \o separator \o join(Tail(lines), separator)

\* the text contains a documentation comment: /\/\*\*([\s\S]*?)\*\//
HasDocComment(text) ==
    /\ includes(text, "/**")
    /\ indexOfFrom(text, "*/", indexOf(text, "/**") + 3) # 0

\* content.indexOf(fullMatch): the place where the text of the interface
\* block at place i occurs first
FirstOccurrence(items, i) ==
    CHOOSE j \in 1..i : items[j] = items[i] /\ \A k \in 1..(j - 1) : items[k] # items[i]

\* the places before place j that hold a documentation comment: the
\* comments, and the interface blocks with a comment in their body
CommentPlaces(items, j) ==
    {k \in 1..(j - 1) :
        \/ items[k].kind = "comment"
        \/ /\ items[k].kind = "interface"
           /\ HasDocComment(join(items[k].interfaceBody, "\n"))}

\* mutant: the search goes back to the last comment with the required tags
LastAnnotatedCommentBefore(items, j) ==
    LET annotated == {k \in CommentPlaces(items, j) :
                         /\ items[k].kind = "comment"
                         /\ \A tag \in RequiredTags :
                               \E n \in DOMAIN items[k].lines : items[k].lines[n].tag = tag}
    IN IF annotated = {} THEN << >>
       ELSE items[CHOOSE c \in annotated : \A d \in annotated : d <= c].lines

\* commentBlocks[commentBlocks.length - 1] of the text before place j: the
\* tag lines of the last comment (none for a comment in an interface body)
LastCommentBefore(items, j) ==
    LET k == CHOOSE c \in CommentPlaces(items, j) :
                \A d \in CommentPlaces(items, j) : d <= c
    IN IF items[k].kind = "comment" THEN items[k].lines ELSE << >>

\* commentContent.match(/\*\s+@tag\s+([^\n\r]+)/): the lines of the tag
\* that the pattern matches
TagMatches(lines, tag) ==
    SelectSeq(lines, LAMBDA l : /\ l.tag = tag
                                /\ Len(l.rest) >= 2
                                /\ CharAt(l.rest, 1) \in Whitespace)

\* match[1]: what is left of the line after the white space \s+ takes,
\* which leaves one character when the line holds nothing else
Capture(rest) ==
    IF trimStart(rest) = "" THEN CharAt(rest, Len(rest)) ELSE trimStart(rest)

RECURSIVE MapCapture(_)
MapCapture(lines) ==
    IF lines = << >> THEN << >>
    ELSE << trim(Capture(Head(lines).rest)) >> \o MapCapture(Tail(lines))

\* mutant: the tag values are taken as captured
TagValueUntrimmed(lines, tag) == Capture(Head(TagMatches(lines, tag)).rest)

\* componentNameMatch[1].trim()
TagValue(lines, tag) == trim(Capture(Head(TagMatches(lines, tag)).rest))

HasRequiredTags(lines) == \A tag \in RequiredTags : TagMatches(lines, tag) # << >>

\* the place up to which the text is searched for the comment of the
\* interface block at place i
SelectedPlace(items, i) == FirstOccurrence(items, i)

\* the block extractComponentBlocks pushes for the interface at place i
BlockAt(items, i) ==
    LET lines == LastCommentBefore(items, SelectedPlace(items, i))
        guidance == TagMatches(lines, "guidanceHref")
    IN [interfaceName |-> items[i].interfaceName,
        interfaceBody |-> items[i].interfaceBody,
        componentName |-> TagValue(lines, "componentName"),
        maturityCategory |-> TagValue(lines, "maturityCategory"),
        maturityLevel |-> TagValue(lines, "maturityLevel"),
        guidanceHref |-> IF guidance = << >> THEN NULL
                         ELSE Some(TagValue(lines, "guidanceHref")),
        translations |-> MapCapture(TagMatches(lines, "translations"))]

\* the interface at place i is skipped: no comment before it, or a
\* required tag missing in the comment
Skipped(items, i) ==
    IF CommentPlaces(items, SelectedPlace(items, i)) = {} THEN TRUE
    ELSE ~HasRequiredTags(LastCommentBefore(items, SelectedPlace(items, i)))

RECURSIVE ExtractFrom(_, _)
ExtractFrom(items, i) ==
    IF i > Len(items) THEN << >>
    ELSE IF items[i].kind # "interface" \/ Skipped(items, i)
    THEN ExtractFrom(items, i + 1)
    ELSE << BlockAt(items, i) >> \o ExtractFrom(items, i + 1)

extractComponentBlocks(content) == ExtractFrom(content.items, 1)

\* trimmedLine.startsWith('/**') || trimmedLine.startsWith('*')
IsCommentLine(trimmedLine) ==
    startsWith(trimmedLine, "/**") \/ startsWith(trimmedLine, "*")

\* trimmedLine.match(/\*\s*(.*)/)[1]: the line after its first asterisk
\* and the white space that follows it
CommentFragment(trimmedLine) ==
    SubSeq(trimmedLine,
           SkipChars(trimmedLine, indexOf(trimmedLine, "*") + 1, Whitespace),
           Len(trimmedLine))

\* the places where the parts of /^"?([^"?:]+)"?\??\s*:\s*([^;]+);?\s*$/
\* begin in a trimmed line: the name, what follows it, the colon, the type
\* and what follows it
PropertyPlaces(t) ==
    LET nameStart == IF startsWith(t, "\"") THEN 2 ELSE 1
        nameEnd == FindChar(t, nameStart, {"\"", "?", ":"})
        afterQuote == IF CharAt(t, nameEnd) = "\"" THEN nameEnd + 1 ELSE nameEnd
        afterMark == IF CharAt(t, afterQuote) = "?" THEN afterQuote + 1 ELSE afterQuote
        colon == SkipChars(t, afterMark, Whitespace)
        typeEnd == FindChar(t, colon + 1, {";"})
        typeStart == Min(SkipChars(t, colon + 1, Whitespace), typeEnd - 1)
    IN [nameStart |-> nameStart, nameEnd |-> nameEnd, colon |-> colon,
        typeStart |-> typeStart, typeEnd |-> typeEnd]

PropertyMatch(t) ==
    LET p == PropertyPlaces(t)
    IN /\ p.nameEnd > p.nameStart
       /\ CharAt(t, p.colon) = ":"
       /\ p.typeEnd > p.colon + 1
       /\ p.typeEnd >= Len(t)

\* currentComment += (currentComment ? ' ' : '') + commentMatch[1]
DescriptionAfter(currentComment, fragment) ==
    currentComment \o (IF currentComment # "" THEN " " ELSE "") \o fragment

PropertyOf(t, currentComment) ==
    LET p == PropertyPlaces(t)
    IN [name |-> trim(SubSeq(t, p.nameStart, p.nameEnd - 1)),
        type |-> trim(SubSeq(t, p.typeStart, p.typeEnd - 1)),
        optional |-> (includes(t, "?:") \/ includes(t, "\"?")),
        description |-> IF trim(currentComment) = "" THEN NULL
                        ELSE Some(trim(currentComment))]

RECURSIVE ParseLines(_, _, _)
ParseLines(lines, currentComment, properties) ==
    IF lines = << >> THEN properties
    ELSE LET trimmedLine == trim(Head(lines)) IN
         IF trimmedLine = ""
         THEN ParseLines(Tail(lines), "", properties)
         ELSE IF IsCommentLine(trimmedLine)
         THEN ParseLines(Tail(lines),
                         DescriptionAfter(currentComment, CommentFragment(trimmedLine)),
                         properties)
         ELSE IF PropertyMatch(trimmedLine)
         THEN ParseLines(Tail(lines), "",
                         Append(properties, PropertyOf(trimmedLine, currentComment)))
         ELSE ParseLines(Tail(lines), currentComment, properties)

\* interfaceBody is the body split at its line breaks
parseInterfaceProperties(interfaceBody) == ParseLines(interfaceBody, "", << >>)

RECURSIVE BuildComponents(_, _)
BuildComponents(blocks, acc) ==
    IF blocks = << >> THEN acc
    ELSE IF Head(blocks).componentName = "" \/ Head(blocks).interfaceName = ""
    THEN BuildComponents(Tail(blocks), acc)
    ELSE LET block == Head(blocks)
             component ==
                 [name |-> block.componentName,
                  interfaceName |-> block.interfaceName,
                  maturityCategory |-> block.maturityCategory,
                  maturityLevel |-> block.maturityLevel,
                  guidanceHref |-> block.guidanceHref,
                  translations |-> block.translations,
                  properties |-> parseInterfaceProperties(block.interfaceBody),
                  status |-> determineComponentStatus(block.maturityCategory,
                                                      block.maturityLevel),
                  recommendation |-> getRecommendation(block.maturityCategory,
                                                       block.maturityLevel),
                  tagName |-> NoTagName]
         IN BuildComponents(Tail(blocks), MapSet(acc, block.interfaceName, component))

RECURSIVE BackfillTagNames(_, _)
BackfillTagNames(entries, acc) ==
    IF entries = << >> THEN acc
    ELSE LET tagName == Head(entries)[1]
             interfaceName == Head(entries)[2]
         IN BackfillTagNames(Tail(entries),
               IF MapHas(acc, interfaceName)
               THEN MapSet(acc, interfaceName,
                           [MapGet(acc, interfaceName) EXCEPT !.tagName = tagName])
               ELSE acc)

parseComponentMetadata(content) ==
    BackfillTagNames(content.tagEntries,
                     BuildComponents(extractComponentBlocks(content), EmptyMap))

\* the table parseComponentMetadata builds from each document the network
\* may serve
ParsedDocs == [content \in Docs \cup {DocLookup} |-> parseComponentMetadata(content)]

MapSize(m) == Len(m)

-----------------------------------------------------------------------------
(* Constructor *)

\* a || b on a nullable number
OrDefault(opt, default) == IF Truthy(opt) THEN ValueOf(opt) ELSE default

\* _validateTimeout: undefined stays undefined, a value outside the range
\* makes the constructor throw (no instance exists then)
TimeoutAccepted(opt) ==
    IF opt = NULL THEN TRUE
    ELSE ValueOf(opt) >= MIN_TIMEOUT /\ ValueOf(opt) <= MAX_TIMEOUT

ClampRetryAttempts(opt) ==
    Max(0, Min(MAX_RETRY_ATTEMPTS, OrDefault(opt, DEFAULT_RETRY_ATTEMPTS)))

ClampRetryDelay(opt) ==
    Max(MIN_RETRY_DELAY, Min(MAX_RETRY_DELAY, OrDefault(opt, DEFAULT_RETRY_DELAY)))

\* option values the model constructs monitors with
OptCacheTimeout == {NULL, Some(300000), Some(600000)}
OptRequestTimeout == {NULL, Some(10000), Some(500)}
OptRetryAttempts == {NULL, Some(-1), Some(0), Some(2)}
OptRetryDelay == {NULL, Some(0), Some(2000)}

-----------------------------------------------------------------------------
(* Call frames *)

NoError == [code |-> "none", resetTime |-> "none", hasToken |-> FALSE]

Error(code) == [code |-> code, resetTime |-> "none", hasToken |-> FALSE]

NoResult == [kind |-> "none", table |-> EmptyMap, error |-> NoError]

Returned(table) == [kind |-> "table", table |-> table, error |-> NoError]

Thrown(error) == [kind |-> "error", table |-> EmptyMap, error |-> error]

\* what a lookup operation gave: nothing yet, a value or an error
NoOutcome == [kind |-> "none", value |-> NULL, error |-> NoError]

\* no lookup operation has been called
IdleApi ==
    [pc |-> "idle", op |-> "none",
     arg |-> [type |-> "null", text |-> "", items |-> << >>],
     rest |-> << >>, results |-> << >>, awaited |-> NoResult, outcome |-> NoOutcome]

\* the locals of a suspended getComponents call that the code reads again
\* after the suspension, and two counters of what the call has done: network
\* attempts started, retry delays waited.  forceRefresh is read only before
\* the first suspension.  lastError is written by the catch block of the
\* attempt loop before every read of it, in the same continuation, so no
\* value of it is carried across a suspension.
IdleFrame ==
    [pc |-> "idle", now |-> 0, attempt |-> 0, timer |-> 0,
     attempts |-> 0, delays |-> 0]

InFlight(c) == call[c].pc \in {"connecting", "reading", "backoff"}

\* the record of a step: the call it belongs to, what happened to the call
\* (phase), why (cause), the argument when the step is the call itself, the
\* call's start time and counters, the result when the call settled, and
\* the length of the body when the step received one
NothingObserved ==
    [caller |-> 0, phase |-> "none", cause |-> "none", forceRefresh |-> NULL,
     now |-> 0, attempts |-> 0, delays |-> 0, result |-> NoResult, body |-> NULL,
     replaced |-> NULL]

Observe(c, phase, cause, frame, result) ==
    [NothingObserved EXCEPT !.caller = c, !.phase = phase, !.cause = cause,
                            !.now = frame.now, !.attempts = frame.attempts,
                            !.delays = frame.delays, !.result = result]

-----------------------------------------------------------------------------
(* Cache policy of getComponents *)

cacheAge(now) == now - ToNumber(lastFetch)

cacheValid(now) ==
    /\ Truthy(lastFetch)
    /\ cacheAge(now) < Min(cacheTimeout, MAX_CACHE_AGE)
    /\ MapSize(components) > 0

\* mutant: forceRefresh is not looked at
ServeFromCacheIgnoringForce(forceRefresh, now) == cacheValid(now)

\* the cached table is returned without a fetch
ServeFromCache(forceRefresh, now) == ~forceRefresh /\ cacheValid(now)

\* mutant: the fallback is limited by the freshness window
fallbackUsableWithinTimeout(now) ==
    /\ MapSize(components) > 0
    /\ (IF ~Truthy(lastFetch) THEN TRUE ELSE (now - ToNumber(lastFetch)) < cacheTimeout)

\* mutant: a table exactly as old as the ceiling is still served
fallbackUsableAtCeiling(now) ==
    /\ MapSize(components) > 0
    /\ (IF ~Truthy(lastFetch) THEN TRUE ELSE (now - ToNumber(lastFetch)) <= MAX_CACHE_AGE)

\* the condition of the catch block for serving the held table
fallbackUsable(now) ==
    /\ MapSize(components) > 0
    /\ (IF ~Truthy(lastFetch) THEN TRUE ELSE (now - ToNumber(lastFetch)) < MAX_CACHE_AGE)

\* mutant: an empty parse result is accepted
NoComponentsFoundNever(parsed) == FALSE

\* the parse result is rejected
NoComponentsFound(parsed) == MapSize(parsed) = 0

\* mutant: the parsed records are merged into the held table
StoredTableMerged(previous, parsed) ==
    SelectSeq(previous, LAMBDA e : ~MapHas(parsed, e[1])) \o parsed

\* mutant: the later of the held timestamp and the call's own is written
StoredTimestampLatest(previous, now) ==
    IF previous = NULL THEN Some(now) ELSE Some(Max(ValueOf(previous), now))

\* mutant: the timestamp is written only when one is held already
StoredTimestampKept(previous, now) == IF previous = NULL THEN NULL ELSE Some(now)

\* the table and timestamp a successful refresh stores
StoredTable(previous, parsed) == parsed

StoredTimestamp(previous, now) == Some(now)

-----------------------------------------------------------------------------
(* Fetch layer *)

\* response heads: status, x-ratelimit-remaining, x-ratelimit-reset
Head200 == [status |-> 200, remaining |-> "null", reset |-> "null"]
Head403Limited == [status |-> 403, remaining |-> "0", reset |-> "1700000000"]
Head403LimitedNoReset == [status |-> 403, remaining |-> "0", reset |-> "null"]
Head403LimitedBadReset == [status |-> 403, remaining |-> "0", reset |-> "soon"]
Head403Forbidden == [status |-> 403, remaining |-> "59", reset |-> "1700000000"]
Head500 == [status |-> 500, remaining |-> "null", reset |-> "null"]

Heads == {Head200, Head403Limited, Head403LimitedNoReset, Head403LimitedBadReset,
          Head403Forbidden, Head500}

ResponseOk(head) == head.status >= 200 /\ head.status <= 299

IsRateLimited(head) == head.status = 403 /\ head.remaining = "0"

\* new Date(parseInt(reset) * 1000).toISOString(): a RangeError for a
\* header that is no number
ResetTimeOf(head) ==
    CASE head.reset = "null" -> "unknown"
      [] head.reset = "1700000000" -> "2023-11-14T22:13:20.000Z"
      [] OTHER -> "RangeError"

\* an exception that is no VAComponentError (TypeError of fetch, RangeError)
Foreign == Error("foreign")

\* what the try block raises on a response head (NoError: it goes on to
\* read the body); githubToken: a token is set in the environment
HeadError(head, githubToken) ==
    IF IsRateLimited(head)
    THEN IF ResetTimeOf(head) = "RangeError"
         THEN Foreign
         ELSE [code |-> "RATE_LIMIT_EXCEEDED", resetTime |-> ResetTimeOf(head),
               hasToken |-> githubToken]
    ELSE IF ~ResponseOk(head) THEN Error("FETCH_ERROR")
    ELSE NoError

\* why an attempt failed on a response head
HeadCause(head) ==
    IF IsRateLimited(head)
    THEN IF ResetTimeOf(head) = "RangeError"
         THEN "rate-limited-bad-reset"
         ELSE "rate-limited"
    ELSE "bad-status"

\* mutant: only an empty body is rejected
ContentAcceptedUnlessEmpty(content) == ~(content.len = 0)

ContentAccepted(content) == ~(content.len = 0 \/ content.len < MIN_CONTENT_LENGTH)

\* mutant: off by one in the retry condition
ShouldRetryOnceMore(attempt) == attempt <= retryAttempts

\* the loop goes on to another attempt after a failed one
ShouldRetry(attempt) == attempt < retryAttempts

\* the catch block of the attempt loop: lastError becomes the caught error,
\* wrapped as NETWORK_ERROR when it is no VAComponentError
CaughtError(error) ==
    IF error.code = "foreign" THEN Error("NETWORK_ERROR") ELSE error

-----------------------------------------------------------------------------
(* Continuations of getComponents *)

\* the catch block of getComponents
RefreshFailed(c, error, cause, body) ==
    /\ call' = [call EXCEPT ![c] = IdleFrame]
    /\ observed' = [Observe(c, "settled", cause, call[c],
                            IF fallbackUsable(call[c].now)
                            THEN Returned(components)
                            ELSE Thrown(error))
                    EXCEPT !.body = body]
    /\ UNCHANGED <<components, lastFetch>>

\* the catch block of fetchComponentDefinitions after a failed attempt
AttemptFailed(c, error, cause, body) ==
    LET lastError == CaughtError(error) IN
    IF ShouldRetry(call[c].attempt)
    THEN /\ call' = [call EXCEPT ![c] =
                       [@ EXCEPT !.pc = "backoff", !.timer = clock + retryDelay]]
         /\ observed' = [Observe(c, "retrying", cause, call[c], NoResult)
                         EXCEPT !.body = body]
         /\ UNCHANGED <<components, lastFetch>>
    ELSE RefreshFailed(c, lastError, cause, body)

\* getComponents after fetchComponentDefinitions returned content
RefreshWith(c, content) ==
    LET parsed == ParsedDocs[content] IN
    IF content.len = 0
    THEN RefreshFailed(c, Error("INVALID_DATA"), "invalid-data", Some(content.len))
    ELSE IF NoComponentsFound(parsed)
    THEN RefreshFailed(c, Error("NO_COMPONENTS_FOUND"), "no-components",
                       Some(content.len))
    ELSE /\ components' = StoredTable(components, parsed)
         /\ lastFetch' = StoredTimestamp(lastFetch, call[c].now)
         /\ call' = [call EXCEPT ![c] = IdleFrame]
         /\ observed' = [Observe(c, "settled", "loaded", call[c], Returned(components'))
                         EXCEPT !.body = Some(content.len), !.replaced = lastFetch]

-----------------------------------------------------------------------------
(* Actions of the monitor *)

config == <<cacheTimeout, requestTimeout, retryAttempts, retryDelay>>

\* a new call takes the lowest free frame
FreeFrame(c) ==
    /\ ~InFlight(c)
    /\ \A d \in Callers : d < c => InFlight(d)

\* getComponents(forceRefresh) up to its first suspension: the cache check,
\* and the first attempt of fetchComponentDefinitions when it goes on
GetComponents(c, forceRefresh) ==
    /\ FreeFrame(c)
    /\ LET frame == [IdleFrame EXCEPT !.now = clock]
           fetching == [frame EXCEPT !.pc = "connecting", !.attempt = 0,
                                     !.timer = clock + requestTimeout,
                                     !.attempts = 1]
       IN
       IF ServeFromCache(forceRefresh, clock)
       THEN /\ call' = [call EXCEPT ![c] = IdleFrame]
            /\ observed' = [Observe(c, "settled", "cached", frame, Returned(components))
                            EXCEPT !.forceRefresh = Some(forceRefresh)]
       ELSE /\ call' = [call EXCEPT ![c] = fetching]
            /\ observed' = [Observe(c, "started", "none", fetching, NoResult)
                            EXCEPT !.forceRefresh = Some(forceRefresh)]
    /\ UNCHANGED <<components, lastFetch, config, clock, ticks, pureVars>>

\* the response head arrives before the timeout timer fires
ResponseArrives(c, head, githubToken) ==
    /\ call[c].pc = "connecting"
    /\ IF HeadError(head, githubToken) = NoError
       THEN /\ call' = [call EXCEPT ![c] = [@ EXCEPT !.pc = "reading", !.timer = 0]]
            /\ observed' = NothingObserved
            /\ UNCHANGED <<components, lastFetch>>
       ELSE AttemptFailed(c, HeadError(head, githubToken), HeadCause(head), NULL)
    /\ UNCHANGED <<config, clock, ticks, pureVars>>

\* fetch rejects (DNS, connection reset)
ConnectFails(c) ==
    /\ call[c].pc = "connecting"
    /\ AttemptFailed(c, Foreign, "network", NULL)
    /\ UNCHANGED <<config, clock, ticks, pureVars>>

\* the timer of fetchWithTimeout fires while fetch is pending
TimeoutFires(c) ==
    /\ call[c].pc = "connecting"
    /\ clock >= call[c].timer
    /\ AttemptFailed(c, Error("TIMEOUT"), "timeout", NULL)
    /\ UNCHANGED <<config, clock, ticks, pureVars>>

\* response.text() resolves
BodyArrives(c, content) ==
    /\ call[c].pc = "reading"
    /\ IF ContentAccepted(content)
       THEN RefreshWith(c, content)
       ELSE AttemptFailed(c, Error("INVALID_RESPONSE"), "invalid-response",
                          Some(content.len))
    /\ UNCHANGED <<config, clock, ticks, pureVars>>

\* response.text() rejects
BodyFails(c) ==
    /\ call[c].pc = "reading"
    /\ AttemptFailed(c, Foreign, "network", NULL)
    /\ UNCHANGED <<config, clock, ticks, pureVars>>

\* the retry delay has passed: the loop starts the next attempt
RetryTimerFires(c) ==
    /\ call[c].pc = "backoff"
    /\ clock >= call[c].timer
    /\ call' = [call EXCEPT ![c] =
                  [@ EXCEPT !.pc = "connecting", !.attempt = @ + 1,
                            !.timer = clock + requestTimeout,
                            !.attempts = @ + 1, !.delays = @ + 1]]
    /\ observed' = NothingObserved
    /\ UNCHANGED <<components, lastFetch, config, clock, ticks, pureVars>>

\* the steps the clock is observed to advance by: each lets every pending
\* timer come due, one takes a table to the end of the freshness window and
\* one to the hard ceiling
TickDeltas == {Max(requestTimeout, retryDelay), cacheTimeout, MAX_CACHE_AGE}

\* time passes
Tick(d) ==
    /\ ticks < MaxTicks
    /\ clock' = clock + d
    /\ ticks' = ticks + 1
    /\ observed' = NothingObserved
    /\ UNCHANGED <<components, lastFetch, config, call, pureVars>>

\* the monitor after its constructor
Constructed ==
    /\ components = EmptyMap
    /\ lastFetch = NULL
    /\ \E o \in OptCacheTimeout :
          TimeoutAccepted(o) /\ cacheTimeout = OrDefault(o, DEFAULT_CACHE_TIMEOUT)
    /\ \E o \in OptRequestTimeout :
          TimeoutAccepted(o) /\ requestTimeout = OrDefault(o, DEFAULT_TIMEOUT)
    /\ \E o \in OptRetryAttempts : retryAttempts = ClampRetryAttempts(o)
    /\ \E o \in OptRetryDelay : retryDelay = ClampRetryDelay(o)

\* the variables of the classifier and of the parse while they are not
\* under study
ClassifyIdle ==
    /\ cl_category = "use"
    /\ cl_level = "unknown"
    /\ cl_status = "none"
    /\ cl_rec = "none"

ParseIdle ==
    /\ pm_content = DocEmpty
    /\ pm_blocks = NULL
    /\ pm_components = NULL

PropsIdle ==
    /\ ip_body = << >>
    /\ ip_properties = NULL

\* no example operation has been called
IdleExamples ==
    [op |-> "none", component |-> NULL, official |-> NULL, fault |-> "none",
     outcome |-> NoOutcome]

SemanticsIdle ==
    /\ sa_properties = << >>
    /\ sa_analysis = NULL
    /\ ge_call = IdleExamples

\* the options of the constructor are not recorded
ConfigIdle == cfg_options = NULL

\* no lookup operation is in progress
ApiIdle == api = IdleApi

Init ==
    /\ Constructed
    /\ clock = StartTime
    /\ ticks = 0
    /\ call = [c \in Callers |-> IdleFrame]
    /\ observed = NothingObserved
    /\ ClassifyIdle
    /\ ParseIdle
    /\ PropsIdle
    /\ SemanticsIdle
    /\ ConfigIdle
    /\ ApiIdle

Next ==
    \/ \E c \in Callers, forceRefresh \in BOOLEAN :
          GetComponents(c, forceRefresh) /\ UNCHANGED api
    \/ \E c \in Callers, head \in Heads, githubToken \in BOOLEAN :
          ResponseArrives(c, head, githubToken) /\ UNCHANGED api
    \/ \E c \in Callers : ConnectFails(c) /\ UNCHANGED api
    \/ \E c \in Callers : TimeoutFires(c) /\ UNCHANGED api
    \/ \E c \in Callers, content \in Docs : BodyArrives(c, content) /\ UNCHANGED api
    \/ \E c \in Callers : BodyFails(c) /\ UNCHANGED api
    \/ \E c \in Callers : RetryTimerFires(c) /\ UNCHANGED api
    \/ \E d \in TickDeltas : Tick(d) /\ UNCHANGED api

Spec == Init /\ [][Next]_vars

-----------------------------------------------------------------------------
(* The classifier on its own: the inputs are drawn by the initial state,   *)
(* the two functions are applied in either order.                          *)

\* a monitor constructed without options, on which no call is made
MonitorIdle ==
    /\ components = EmptyMap
    /\ lastFetch = NULL
    /\ cacheTimeout = DEFAULT_CACHE_TIMEOUT
    /\ requestTimeout = DEFAULT_TIMEOUT
    /\ retryAttempts = DEFAULT_RETRY_ATTEMPTS
    /\ retryDelay = DEFAULT_RETRY_DELAY
    /\ clock = StartTime
    /\ ticks = 0
    /\ call = [c \in Callers |-> IdleFrame]
    /\ observed = NothingObserved

InitClassify ==
    /\ MonitorIdle
    /\ ParseIdle
    /\ PropsIdle
    /\ SemanticsIdle
    /\ ConfigIdle
    /\ ApiIdle
    /\ cl_category \in Categories
    /\ cl_level \in Levels
    /\ cl_status = "none"
    /\ cl_rec = "none"

DetermineStatus ==
    /\ cl_status = "none"
    /\ cl_status' = determineComponentStatus(cl_category, cl_level)
    /\ UNCHANGED <<cl_category, cl_level, cl_rec, monitorVars, parseVars, propsVars,
                   semanticsVars, cfg_options, api>>

Recommend ==
    /\ cl_rec = "none"
    /\ cl_rec' = getRecommendation(cl_category, cl_level)
    /\ UNCHANGED <<cl_category, cl_level, cl_status, monitorVars, parseVars,
                   propsVars, semanticsVars, cfg_options, api>>

NextClassify == DetermineStatus \/ Recommend

SpecClassify == InitClassify /\ [][NextClassify]_vars

-----------------------------------------------------------------------------
(* The metadata parse on its own: the initial state draws a document, the  *)
(* two entry points of the parse are applied to it in either order.        *)

\* a complete comment with padded values and the optional tags
CommentButton ==
    Comment(<< TagLine("componentName", "  Button "),
               TagLine("maturityCategory", " use"),
               TagLine("maturityLevel", " deployed\t"),
               TagLine("guidanceHref", " button/ "),
               TagLine("translations", " es "),
               TagLine("translations", " es ") >>)

CommentAlert == Tags("Alert", "caution", "candidate")

CommentNoName ==
    Comment(<< TagLine("maturityCategory", " use"),
               TagLine("maturityLevel", " deployed") >>)

CommentNoCategory ==
    Comment(<< TagLine("componentName", " Card"),
               TagLine("maturityLevel", " deployed") >>)

CommentNoLevel ==
    Comment(<< TagLine("componentName", " Card"),
               TagLine("maturityCategory", " use") >>)

\* a comment without tags, such as a file header
CommentPlain == Comment(<< >>)

InterfaceButton == Interface("VaButton", << "", "  text?: string;" >>)

\* an interface whose body holds a documentation comment
InterfaceAlert ==
    Interface("VaAlert", << "", "  /** Shown. */", "  visible: boolean;" >>)

ParseItems ==
    {CommentButton, CommentAlert, CommentNoName, CommentNoCategory,
     CommentNoLevel, CommentPlain, InterfaceButton, InterfaceAlert}

ParseDocs ==
    {[len |-> 1000, items |-> items,
      tagEntries |-> << <<"va-button", "VaButton">>, <<"va-ghost", "VaGhost">> >>] :
        items \in UNION {[1..n -> ParseItems] : n \in 0..MaxItems}}

InitParse ==
    /\ MonitorIdle
    /\ ClassifyIdle
    /\ PropsIdle
    /\ SemanticsIdle
    /\ ConfigIdle
    /\ ApiIdle
    /\ pm_content \in ParseDocs
    /\ pm_blocks = NULL
    /\ pm_components = NULL

ExtractComponentBlocks ==
    /\ pm_blocks = NULL
    /\ pm_blocks' = Some(extractComponentBlocks(pm_content))
    /\ UNCHANGED <<pm_content, pm_components, monitorVars, classifyVars, propsVars,
                   semanticsVars, cfg_options, api>>

ParseComponentMetadata ==
    /\ pm_components = NULL
    /\ pm_components' = Some(parseComponentMetadata(pm_content))
    /\ UNCHANGED <<pm_content, pm_blocks, monitorVars, classifyVars, propsVars,
                   semanticsVars, cfg_options, api>>

NextParse == ExtractComponentBlocks \/ ParseComponentMetadata

SpecParse == InitParse /\ [][NextParse]_vars

-----------------------------------------------------------------------------
(* The property parse on its own: the initial state draws the lines of an  *)
(* interface body, parseInterfaceProperties is applied to them.            *)

MaxLines == 3

\* lines of an interface body: blank, the three lines of a documentation
\* comment, a one-line comment, properties, and a line of neither shape
BodyLines ==
    {"", "  /**", "   * Help text", "   */", "  /** one */",
     "  text?: string;", "  \"aria-label\": string;", "  // note"}

InitProps ==
    /\ MonitorIdle
    /\ ClassifyIdle
    /\ ParseIdle
    /\ SemanticsIdle
    /\ ConfigIdle
    /\ ApiIdle
    /\ ip_body \in UNION {[1..n -> BodyLines] : n \in 0..MaxLines}
    /\ ip_properties = NULL

ParseInterfaceProperties ==
    /\ ip_properties = NULL
    /\ ip_properties' = Some(parseInterfaceProperties(ip_body))
    /\ UNCHANGED <<ip_body, monitorVars, classifyVars, parseVars, semanticsVars,
                   cfg_options, api>>

NextProps == ParseInterfaceProperties

SpecProps == InitProps /\ [][NextProps]_vars

-----------------------------------------------------------------------------
(* The retry configuration: the initial state records the options the      *)
(* monitor was constructed with, one forced refresh is made and every      *)
(* attempt of it fails to connect.                                         *)

\* values of options.retryAttempts and options.retryDelay: not given, below,
\* inside and above the range
ConfigRetryAttempts == {NULL, Some(-1), Some(0), Some(1), Some(3), Some(5), Some(6)}

ConfigRetryDelay ==
    {NULL, Some(0), Some(500), Some(1000), Some(3000), Some(10000), Some(20000)}

InitConfig ==
    /\ \E attempts \in ConfigRetryAttempts, delay \in ConfigRetryDelay :
          /\ cfg_options = Some([retryAttempts |-> attempts, retryDelay |-> delay])
          /\ retryAttempts = ClampRetryAttempts(attempts)
          /\ retryDelay = ClampRetryDelay(delay)
    /\ components = EmptyMap
    /\ lastFetch = NULL
    /\ cacheTimeout = DEFAULT_CACHE_TIMEOUT
    /\ requestTimeout = DEFAULT_TIMEOUT
    /\ clock = StartTime
    /\ ticks = 0
    /\ call = [c \in Callers |-> IdleFrame]
    /\ observed = NothingObserved
    /\ ClassifyIdle
    /\ ParseIdle
    /\ PropsIdle
    /\ SemanticsIdle
    /\ ApiIdle

\* setTimeout(resolve, this.retryDelay): time passes until the delay is over
DelayElapses(c) ==
    /\ call[c].pc = "backoff"
    /\ clock < call[c].timer
    /\ clock' = call[c].timer
    /\ observed' = NothingObserved
    /\ UNCHANGED <<components, lastFetch, config, ticks, call, pureVars>>

NextConfig ==
    \/ clock = StartTime /\ GetComponents(1, TRUE) /\ UNCHANGED api
    \/ ConnectFails(1) /\ UNCHANGED api
    \/ DelayElapses(1) /\ UNCHANGED api
    \/ RetryTimerFires(1) /\ UNCHANGED api

SpecConfig == InitConfig /\ [][NextConfig]_vars

-----------------------------------------------------------------------------
(* The semantic analysis of a component's properties *)

\* patterns.some(pattern => pattern.test(propName)) for patterns without
\* anchors
TestAny(patterns, propName) == \E pattern \in patterns : includes(propName, pattern)

isVisibleContentProp(propName, propType) ==
    /\ \/ propName \in {"text", "headline", "title", "message", "content", "header"}
       \/ \E suffix \in {"text", "heading", "caption"} : endsWith(propName, suffix)
    /\ includes(propType, "string")

isAccessibilityProp(propName, propType) ==
    \/ TestAny({"aria", "describedby", "screenreader"}, propName)
    \/ propName = "label"

isStateProp(propName, propType) ==
    /\ TestAny({"visible", "open", "closed", "expanded", "collapsed", "disabled",
                "loading", "active", "selected", "checked", "show", "hide"}, propName)
    /\ includes(propType, "boolean")

isConfigProp(propName, propType) ==
    \/ TestAny({"variant", "size", "type", "status", "level", "theme", "style",
                "mode"}, propName)
    \/ includes(propType, "|")
    \/ includes(propType, "enum")

isEventProp(propName, propType) ==
    /\ startsWith(propName, "on")
    /\ (includes(propType, "=>") \/ includes(propType, "function"))

isSlotProp(propName, propType) ==
    TestAny({"slot", "content", "body", "children"}, propName)

isFormRelatedProp(propName) ==
    TestAny({"name", "value", "required", "error", "validation", "input", "field",
             "form"}, propName)

isConditionalProp(propName) ==
    TestAny({"closeable", "dismissible", "expandable", "collapsible", "toggle"},
            propName)

\* mutant: the state test comes before the accessibility test
RoleOfStateFirst(propName, propType) ==
    IF isVisibleContentProp(propName, propType) THEN "visibleTextProps"
    ELSE IF isStateProp(propName, propType) THEN "stateProps"
    ELSE IF isAccessibilityProp(propName, propType) THEN "accessibilityProps"
    ELSE IF isConfigProp(propName, propType) THEN "configProps"
    ELSE IF isEventProp(propName, propType) THEN "eventProps"
    ELSE IF isSlotProp(propName, propType) THEN "slotProps"
    ELSE "none"

\* the if / else-if chain: the list the property is pushed to
RoleOf(propName, propType) ==
    IF isVisibleContentProp(propName, propType) THEN "visibleTextProps"
    ELSE IF isAccessibilityProp(propName, propType) THEN "accessibilityProps"
    ELSE IF isStateProp(propName, propType) THEN "stateProps"
    ELSE IF isConfigProp(propName, propType) THEN "configProps"
    ELSE IF isEventProp(propName, propType) THEN "eventProps"
    ELSE IF isSlotProp(propName, propType) THEN "slotProps"
    ELSE "none"

NewAnalysis ==
    [visibleTextProps |-> << >>, accessibilityProps |-> << >>, stateProps |-> << >>,
     configProps |-> << >>, eventProps |-> << >>, requiredProps |-> << >>,
     slotProps |-> << >>,
     isFormRelated |-> FALSE, isInteractive |-> FALSE, hasStates |-> FALSE,
     hasConditionalContent |-> FALSE, hasAccessibilityEnhancements |-> FALSE,
     hasSlots |-> FALSE,
     inferredPurpose |-> "general", contentStrategy |-> "unknown"]

\* the body of properties.forEach(prop => ...)
CategorizeProp(analysis, prop) ==
    LET propName == toLowerCase(prop.name)
        propType == toLowerCase(prop.type)
        role == RoleOf(propName, propType)
        Pushed(list) == IF role = list THEN Append(analysis[list], prop)
                        ELSE analysis[list]
    IN [analysis EXCEPT
          !.requiredProps = IF ~prop.optional THEN Append(@, prop) ELSE @,
          !.visibleTextProps = Pushed("visibleTextProps"),
          !.accessibilityProps = Pushed("accessibilityProps"),
          !.stateProps = Pushed("stateProps"),
          !.configProps = Pushed("configProps"),
          !.eventProps = Pushed("eventProps"),
          !.slotProps = Pushed("slotProps"),
          !.hasAccessibilityEnhancements = @ \/ role = "accessibilityProps",
          !.hasStates = @ \/ role = "stateProps",
          !.isInteractive = @ \/ role = "eventProps",
          !.hasSlots = @ \/ role = "slotProps",
          !.isFormRelated = @ \/ isFormRelatedProp(propName),
          !.hasConditionalContent = @ \/ isConditionalProp(propName)]

RECURSIVE Categorize(_, _)
Categorize(properties, analysis) ==
    IF properties = << >> THEN analysis
    ELSE Categorize(Tail(properties), CategorizeProp(analysis, Head(properties)))

\* list.some(p => test(p))
Some_(list, Test(_)) == \E n \in DOMAIN list : Test(list[n])

\* mutant: the container test comes before the notification test
inferPurposeContainerFirst(analysis) ==
    IF Some_(analysis.eventProps,
             LAMBDA q : includes(q.name, "click") \/ includes(q.name, "submit"))
    THEN "action"
    ELSE IF /\ analysis.isFormRelated
            /\ Some_(analysis.visibleTextProps, LAMBDA q : q.name = "label")
    THEN "input"
    ELSE IF \/ analysis.hasSlots
            \/ Some_(analysis.visibleTextProps, LAMBDA q : includes(q.name, "headline"))
    THEN "container"
    ELSE IF /\ Some_(analysis.configProps, LAMBDA q : q.name = "status")
            /\ Some_(analysis.visibleTextProps,
                     LAMBDA q : includes(q.name, "message") \/ includes(q.name, "headline"))
    THEN "notification"
    ELSE IF Some_(analysis.configProps,
                  LAMBDA q : includes(q.name, "href") \/ includes(q.name, "link"))
    THEN "navigation"
    ELSE IF Some_(analysis.configProps,
                  LAMBDA q : includes(q.name, "data") \/ includes(q.name, "list"))
    THEN "data"
    ELSE "general"

inferPurposeFromProperties(analysis) ==
    IF Some_(analysis.eventProps,
             LAMBDA q : includes(q.name, "click") \/ includes(q.name, "submit"))
    THEN "action"
    ELSE IF /\ analysis.isFormRelated
            /\ Some_(analysis.visibleTextProps, LAMBDA q : q.name = "label")
    THEN "input"
    ELSE IF /\ Some_(analysis.configProps, LAMBDA q : q.name = "status")
            /\ Some_(analysis.visibleTextProps,
                     LAMBDA q : includes(q.name, "message") \/ includes(q.name, "headline"))
    THEN "notification"
    ELSE IF Some_(analysis.configProps,
                  LAMBDA q : includes(q.name, "href") \/ includes(q.name, "link"))
    THEN "navigation"
    ELSE IF \/ analysis.hasSlots
            \/ Some_(analysis.visibleTextProps, LAMBDA q : includes(q.name, "headline"))
    THEN "container"
    ELSE IF Some_(analysis.configProps,
                  LAMBDA q : includes(q.name, "data") \/ includes(q.name, "list"))
    THEN "data"
    ELSE "general"

determineContentStrategy(analysis) ==
    IF Len(analysis.visibleTextProps) > 0 THEN "visible-first"
    ELSE IF /\ analysis.isFormRelated
            /\ Some_(analysis.accessibilityProps, LAMBDA q : q.name = "label")
    THEN "form-label"
    ELSE IF Len(analysis.accessibilityProps) > 0 THEN "accessibility-only"
    ELSE "minimal"

analyzeComponentSemantics(properties) ==
    LET categorized == Categorize(properties, NewAnalysis)
        inferred == [categorized EXCEPT
                       !.inferredPurpose = inferPurposeFromProperties(categorized)]
    IN [inferred EXCEPT !.contentStrategy = determineContentStrategy(inferred)]

MaxProps == 2

Prop(name, type, optional) ==
    [name |-> name, type |-> type, optional |-> optional, description |-> NULL]

\* properties that satisfy one, several or none of the role tests
SemanticProps ==
    {Prop("text", "string", TRUE),
     Prop("Title", "String", FALSE),
     Prop("ariaText", "string", TRUE),
     Prop("ariaDisabled", "boolean", TRUE),
     Prop("disabled", "boolean | string", TRUE),
     Prop("messageType", "string", TRUE),
     Prop("onContentChange", "(e) => void", TRUE),
     Prop("content", "number", TRUE),
     Prop("label", "string", TRUE),
     Prop("value", "string", FALSE),
     Prop("closeable", "boolean", TRUE),
     Prop("showToggle", "boolean", TRUE),
     Prop("errorText", "string", TRUE),
     Prop("onclick", "() => void", TRUE),
     Prop("onClick", "() => void", TRUE),
     Prop("onsubmit", "function", TRUE),
     Prop("status", "string", TRUE),
     Prop("headline", "string", TRUE),
     Prop("message", "string", TRUE),
     Prop("linkType", "string", TRUE),
     Prop("dataType", "string", TRUE)}

InitSemantics ==
    /\ MonitorIdle
    /\ ClassifyIdle
    /\ ParseIdle
    /\ PropsIdle
    /\ ConfigIdle
    /\ ApiIdle
    /\ sa_properties \in UNION {[1..n -> SemanticProps] : n \in 0..MaxProps}
    /\ sa_analysis = NULL
    /\ ge_call = IdleExamples

AnalyzeComponentSemantics ==
    /\ sa_analysis = NULL
    /\ sa_analysis' = Some(analyzeComponentSemantics(sa_properties))
    /\ UNCHANGED <<sa_properties, ge_call, monitorVars, classifyVars, parseVars,
                   propsVars, cfg_options, api>>

NextSemantics == AnalyzeComponentSemantics

SpecSemantics == InitSemantics /\ [][NextSemantics]_vars

-----------------------------------------------------------------------------
(* The lookup operations of one monitor, called one after the other.  A    *)
(* call runs up to its await of getComponents; when getComponents settles, *)
(* its continuation runs before any timer or network event.                *)

\* JavaScript values handed to the operations as arguments
JsNull == [type |-> "null", text |-> "", items |-> << >>]
JsString(text) == [type |-> "string", text |-> text, items |-> << >>]
JsNumber(text) == [type |-> "number", text |-> text, items |-> << >>]
JsBoolean(b) ==
    [type |-> "boolean", text |-> IF b THEN "true" ELSE "false", items |-> << >>]
JsArray(items) == [type |-> "array", text |-> "", items |-> items]

typeof(value) == IF value.type \in {"null", "array"} THEN "object" ELSE value.type

ForbiddenChars == {"<", ">", "'", "\""}

\* value.replace(/[<>'"]/g, '') !== value
HasForbiddenChars(text) == \E i \in 1..Len(text) : CharAt(text, i) \in ForbiddenChars

\* mutant: the forbidden characters are not looked for
validateInputUnsanitized(value, type) ==
    IF value.type = "null" THEN Error("INVALID_INPUT")
    ELSE IF typeof(value) # type THEN Error("INVALID_INPUT")
    ELSE IF type = "string" /\ Len(trim(value.text)) = 0 THEN Error("INVALID_INPUT")
    ELSE NoError

\* the error validateInput throws, NoError when it returns the value
validateInput(value, type) ==
    IF value.type = "null" THEN Error("INVALID_INPUT")
    ELSE IF typeof(value) # type THEN Error("INVALID_INPUT")
    ELSE IF type = "string" /\ Len(trim(value.text)) = 0 THEN Error("INVALID_INPUT")
    ELSE IF type = "string" /\ HasForbiddenChars(value.text) THEN Error("INVALID_INPUT")
    ELSE NoError

\* the values of ErrorCodes
ErrorCodes ==
    {"INVALID_INPUT", "INVALID_OPTIONS", "INVALID_URL", "INVALID_TIMEOUT",
     "INVALID_STATUS", "INVALID_DATA", "INVALID_RESPONSE", "FETCH_ERROR",
     "NETWORK_ERROR", "TIMEOUT", "RATE_LIMIT_EXCEEDED", "NO_COMPONENTS_FOUND",
     "SEARCH_ERROR", "FILTER_ERROR", "CHECK_ERROR", "VALIDATION_ERROR", "LINT_ERROR",
     "PROPERTIES_ERROR", "EXAMPLES_ERROR", "UNKNOWN_ERROR"}

validStatuses ==
    {"RECOMMENDED", "STABLE", "EXPERIMENTAL", "AVAILABLE_WITH_ISSUES",
     "USE_WITH_CAUTION", "UNKNOWN"}

\* the test of the first loop of getComponentByName
ExactMatch(component, sanitizedName) ==
    \/ toLowerCase(component.name) = sanitizedName
    \/ component.tagName # NoTagName /\ toLowerCase(component.tagName) = sanitizedName
    \/ toLowerCase(component.interfaceName) = sanitizedName

\* the test of the second loop of getComponentByName
PartialMatch(component, sanitizedName) ==
    \/ includes(toLowerCase(component.name), sanitizedName)
    \/ /\ component.tagName # NoTagName
       /\ includes(toLowerCase(component.tagName), sanitizedName)

\* for (const [key, component] of components) if (test) return component:
\* NULL when the loop ends without returning
FirstWhere(table, Test(_)) ==
    LET hits == {i \in DOMAIN table : Test(table[i][2])}
    IN IF hits = {} THEN NULL
       ELSE Some(table[CHOOSE i \in hits : \A j \in hits : i <= j][2])

\* mutant: one loop that accepts an exact or a partial match
SearchByNameOnePass(table, sanitizedName) ==
    FirstWhere(table, LAMBDA component : \/ ExactMatch(component, sanitizedName)
                                         \/ PartialMatch(component, sanitizedName))

\* the two loops of getComponentByName: NULL or <<component>>
SearchByName(table, sanitizedName) ==
    IF FirstWhere(table, LAMBDA component : ExactMatch(component, sanitizedName)) # NULL
    THEN FirstWhere(table, LAMBDA component : ExactMatch(component, sanitizedName))
    ELSE FirstWhere(table, LAMBDA component : PartialMatch(component, sanitizedName))

\* Array.from(components.values()).filter(c => c.status === sanitizedStatus)
FilterByStatus(table, sanitizedStatus) ==
    SelectSeq(MapValues(table), LAMBDA component : component.status = sanitizedStatus)

\* the entry validateComponents pushes for a requested name
ValidationResult(requested, found) ==
    [requested |-> requested,
     found |-> found # NULL,
     component |-> IF found = NULL THEN NULL
                   ELSE Some([name |-> ValueOf(found).name,
                              tagName |-> ValueOf(found).tagName,
                              status |-> ValueOf(found).status,
                              maturityCategory |-> ValueOf(found).maturityCategory,
                              maturityLevel |-> ValueOf(found).maturityLevel,
                              recommendation |-> ValueOf(found).recommendation])]

Count(list, Test(_)) == Len(SelectSeq(list, Test))

StatusOf(result) ==
    IF result.component = NULL THEN "none" ELSE ValueOf(result.component).status

Summary(results) ==
    [total |-> Len(results),
     found |-> Count(results, LAMBDA r : r.found),
     notFound |-> Count(results, LAMBDA r : ~r.found),
     recommended |-> Count(results, LAMBDA r : StatusOf(r) = "RECOMMENDED"),
     caution |-> Count(results,
                       LAMBDA r : StatusOf(r) \in {"USE_WITH_CAUTION", "EXPERIMENTAL",
                                                    "AVAILABLE_WITH_ISSUES"})]

Issue(type, requested, severity) ==
    [type |-> type, component |-> requested, severity |-> severity]

\* mutant: a component that is available with issues raises a warning
IssuesOfAllWarnings(result) ==
    IF ~result.found THEN << Issue("NOT_FOUND", result.requested, "error") >>
    ELSE IF StatusOf(result) = "USE_WITH_CAUTION"
    THEN << Issue("CAUTION", result.requested, "warning") >>
    ELSE IF StatusOf(result) = "EXPERIMENTAL"
    THEN << Issue("EXPERIMENTAL", result.requested, "warning") >>
    ELSE IF StatusOf(result) = "AVAILABLE_WITH_ISSUES"
    THEN << Issue("ISSUES", result.requested, "warning") >>
    ELSE << >>

\* the callback of validation.validation.forEach: the issue pushed for a
\* result, if any
IssuesOf(result) ==
    IF ~result.found THEN << Issue("NOT_FOUND", result.requested, "error") >>
    ELSE IF StatusOf(result) = "USE_WITH_CAUTION"
    THEN << Issue("CAUTION", result.requested, "warning") >>
    ELSE IF StatusOf(result) = "EXPERIMENTAL"
    THEN << Issue("EXPERIMENTAL", result.requested, "warning") >>
    ELSE IF StatusOf(result) = "AVAILABLE_WITH_ISSUES"
    THEN << Issue("ISSUES", result.requested, "info") >>
    ELSE << >>

RECURSIVE IssuesFrom(_)
IssuesFrom(results) ==
    IF results = << >> THEN << >>
    ELSE IssuesOf(Head(results)) \o IssuesFrom(Tail(results))

\* what lintComponents returns for the results of validateComponents
LintReport(results) ==
    LET issues == IssuesFrom(results)
    IN [issues |-> issues,
        hasErrors |-> \E n \in DOMAIN issues : issues[n].severity = "error",
        hasWarnings |-> \E n \in DOMAIN issues : issues[n].severity = "warning",
        summary |-> Summary(results)]

ValidationReport(results) == [validation |-> results, summary |-> Summary(results)]

\* the operation returned a value / threw an error
Value(v) == [kind |-> "value", value |-> v, error |-> NoError]

Failure(error) == [kind |-> "error", value |-> NULL, error |-> error]

\* the operation has settled: what it was called with, the table its last
\* getComponents gave, the results of its lookups and its outcome
Done(state, outcome) == [state EXCEPT !.pc = "done", !.outcome = outcome]

\* await this.getComponents(): the continuation runs next when
\* getComponents settled in this step, else the call is suspended
Awaiting(state, settled) ==
    IF settled.phase = "settled"
    THEN [state EXCEPT !.pc = "resuming", !.awaited = settled.result]
    ELSE [state EXCEPT !.pc = "awaiting"]

Called(op, arg) == [IdleApi EXCEPT !.op = op, !.arg = arg]

\* a step of the monitor seen from the operation: it resumes the operation
\* when its getComponents settled, and the outcome of an operation that
\* settled earlier is forgotten
AfterStep(settled) ==
    IF api.pc = "awaiting" THEN Awaiting(api, settled) ELSE IdleApi

RECURSIVE Repeat(_, _)
Repeat(text, n) ==
    IF n = 0 THEN ""
    ELSE IF n = 1 THEN text
    ELSE Repeat(text, n \div 2) \o Repeat(text, n - n \div 2)

\* names: null, no string, empty, blank, with a forbidden character, too
\* long, too long only with its padding, and names that match exactly, by
\* substring only, or not at all
NameArguments ==
    {JsNull, JsNumber("5"), JsString(""), JsString("  "), JsString("<b>"),
     JsString(Repeat("a", 101)), JsString("button" \o Repeat(" ", 100)),
     JsString("Button"), JsString(" VA-BUTTON "), JsString("vacard"),
     JsString("icon"), JsString("ghost")}

StatusArguments ==
    {JsNull, JsString("RECOMMENDED"), JsString(" stable "), JsString("BOGUS"),
     JsString("\"STABLE\"")}

ForceRefreshArguments == {JsBoolean(TRUE), JsBoolean(FALSE), JsString("yes"), JsNull}

NameLists ==
    {JsNull,
     JsArray(<< >>),
     JsArray(<< JsString("va-ghost") >>),
     JsArray(<< JsString("button"), JsString("alert") >>),
     JsArray(<< JsString("link"), JsString("card"), JsString("table") >>),
     JsArray(<< JsString("icon"), JsString("<b>") >>)}

\* every name the operations are handed, alone or in a list
Names == NameArguments \cup UNION {{list.items[n] : n \in DOMAIN list.items} : list \in NameLists}

\* the text a string argument is compared by: trimmed, lower case
SanitizedName(value) == toLowerCase(trim(value.text))

\* getComponentByName up to its await: the error it throws, or NoError
NameRejected(value) ==
    IF validateInput(value, "string") # NoError THEN validateInput(value, "string")
    ELSE IF Len(SanitizedName(value)) > 100 THEN Error("INVALID_INPUT")
    ELSE NoError

\* getComponentsByStatus up to its await: the error it throws, or NoError
StatusRejected(value) ==
    IF validateInput(value, "string") # NoError THEN validateInput(value, "string")
    ELSE IF toUpperCase(trim(value.text)) \notin validStatuses
    THEN Error("INVALID_STATUS")
    ELSE NoError

\* what the two functions give for each argument of the model
RejectedNames == [value \in Names |-> NameRejected(value)]

SanitizedNames == [value \in Names |-> SanitizedName(value)]

RejectedStatuses == [value \in StatusArguments |-> StatusRejected(value)]

SanitizedStatuses == [value \in StatusArguments |-> toUpperCase(trim(value.text))]

\* the operation does not reach getComponents: it has settled
Settles(state, outcome) ==
    /\ api' = Done(state, outcome)
    /\ UNCHANGED <<monitorVars, pureVars>>

\* the operation calls getComponents and awaits it
Awaits(state, forceRefresh) ==
    /\ GetComponents(1, forceRefresh)
    /\ api' = Awaiting(state, observed')

\* the loop of validateComponents at its next name: the report when no
\* name is left, else the call of getComponentByName for the name
NextLookup(state) ==
    IF state.rest = << >>
    THEN Settles(state, Value(IF state.op = "lintComponents"
                              THEN LintReport(state.results)
                              ELSE ValidationReport(state.results)))
    ELSE IF RejectedNames[Head(state.rest)] # NoError
    THEN Settles(state, Failure(RejectedNames[Head(state.rest)]))
    ELSE Awaits(state, FALSE)

\* component && ['RECOMMENDED', 'STABLE'].includes(component.status): the
\* left operand when it is null
ProductionReady(found) ==
    IF found = NULL THEN JsNull
    ELSE JsBoolean(ValueOf(found).status \in {"RECOMMENDED", "STABLE"})

\* the counts generateReport takes by a field of the components
CountsBy(table, field) ==
    [key \in {table[i][2][field] : i \in DOMAIN table} |->
        Cardinality({i \in DOMAIN table : table[i][2][field] = key})]

\* new Date(this.lastFetch): the instant of the timestamp, the epoch for null
DateOf(timestamp) == IF timestamp = NULL THEN 0 ELSE ValueOf(timestamp)

\* generateReport after its getComponents resolved: the counts and
\* lastUpdated; table is kept beside them as the table that was counted
Counted(table, timestamp) ==
    [table |-> table,
     total |-> MapSize(table),
     statusCounts |-> CountsBy(table, "status"),
     categoryCounts |-> CountsBy(table, "maturityCategory"),
     lastUpdated |-> DateOf(timestamp)]

\* the filter of getCautionComponents
CautionComponents(table) ==
    SelectSeq(MapValues(table),
              LAMBDA component :
                 \/ component.maturityCategory = "caution"
                 \/ component.status \in {"USE_WITH_CAUTION", "EXPERIMENTAL",
                                          "AVAILABLE_WITH_ISSUES"})

\* the object generateReport returns
Report(counted, recommended, caution) ==
    [total |-> counted.total, statusCounts |-> counted.statusCounts,
     categoryCounts |-> counted.categoryCounts, lastUpdated |-> counted.lastUpdated,
     recommended |-> recommended, caution |-> caution]

\* generateReport resumed with the table of its latest getComponents: the
\* counts and the call of getRecommendedComponents, then the recommended
\* list and the call of getCautionComponents, then the report
ReportStep(state, table) ==
    IF Len(state.results) = 0
    THEN Awaits([state EXCEPT !.results = << Counted(table, lastFetch) >>], FALSE)
    ELSE IF Len(state.results) = 1
    THEN Awaits([state EXCEPT
                   !.results = Append(@, FilterByStatus(table, "RECOMMENDED"))],
                FALSE)
    ELSE Settles(state, Value(Report(state.results[1], state.results[2],
                                     CautionComponents(table))))

\* an operation is called and runs up to its first await
Call(op, arg) ==
    /\ api.pc \in {"idle", "done"}
    /\ ~InFlight(1)
    /\ CASE op \in {"getComponents", "generateReport"} ->
              IF typeof(arg) # "boolean"
              THEN Settles(Called(op, arg), Failure(Error("INVALID_INPUT")))
              ELSE Awaits(Called(op, arg), arg.text = "true")
         [] op \in {"getComponentByName", "isProductionReady"} ->
              IF RejectedNames[arg] # NoError
              THEN Settles(Called(op, arg), Failure(RejectedNames[arg]))
              ELSE Awaits(Called(op, arg), FALSE)
         [] op = "getComponentsByStatus" ->
              IF RejectedStatuses[arg] # NoError
              THEN Settles(Called(op, arg), Failure(RejectedStatuses[arg]))
              ELSE Awaits(Called(op, arg), FALSE)
         [] op \in {"validateComponents", "lintComponents"} ->
              \* for (const componentName of componentNames): a TypeError
              \* when componentNames is not iterable
              IF arg.type # "array"
              THEN Settles(Called(op, arg), Failure(Foreign))
              ELSE NextLookup([Called(op, arg) EXCEPT !.rest = arg.items])

\* the continuation of the operation after its getComponents settled
Resume ==
    /\ api.pc = "resuming"
    /\ LET table == api.awaited.table IN
       IF api.awaited.kind = "error"
       THEN Settles(api, Failure(api.awaited.error))
       ELSE CASE api.op = "getComponents" -> Settles(api, Value(table))
              [] api.op = "getComponentByName" ->
                   Settles(api, Value(SearchByName(table, SanitizedNames[api.arg])))
              [] api.op = "getComponentsByStatus" ->
                   Settles(api, Value(FilterByStatus(table, SanitizedStatuses[api.arg])))
              [] api.op = "isProductionReady" ->
                   Settles(api, Value(ProductionReady(
                                         SearchByName(table, SanitizedNames[api.arg]))))
              [] api.op = "generateReport" -> ReportStep(api, table)
              [] api.op \in {"validateComponents", "lintComponents"} ->
                   NextLookup([api EXCEPT
                                 !.results =
                                     Append(@, ValidationResult(
                                                  Head(api.rest),
                                                  SearchByName(table,
                                                      SanitizedNames[Head(api.rest)]))),
                                 !.rest = Tail(@)])

ApiHeads == {Head200, Head500}

ApiDocs == {DocLookup, DocNoComponents}

InitApi ==
    /\ MonitorIdle
    /\ ClassifyIdle
    /\ ParseIdle
    /\ PropsIdle
    /\ SemanticsIdle
    /\ ConfigIdle
    /\ ApiIdle

NextApi ==
    \/ \E arg \in ForceRefreshArguments : Call("getComponents", arg)
    \/ \E arg \in NameArguments : Call("getComponentByName", arg)
    \/ \E arg \in StatusArguments : Call("getComponentsByStatus", arg)
    \/ \E arg \in NameLists : Call("validateComponents", arg)
    \/ \E arg \in NameLists : Call("lintComponents", arg)
    \/ Resume
    \/ /\ api.pc # "resuming"
       /\ \/ \E head \in ApiHeads : ResponseArrives(1, head, FALSE)
          \/ ConnectFails(1)
          \/ TimeoutFires(1)
          \/ \E content \in ApiDocs : BodyArrives(1, content)
          \/ BodyFails(1)
          \/ RetryTimerFires(1)
          \/ \E d \in TickDeltas : Tick(d)
       /\ api' = AfterStep(observed')

SpecApi == InitApi /\ [][NextApi]_vars

-----------------------------------------------------------------------------
(* Properties *)

FetchFailureCauses ==
    {"rate-limited", "rate-limited-bad-reset", "bad-status", "network", "timeout",
     "invalid-response"}

FailureCauses == FetchFailureCauses \cup {"no-components", "invalid-data"}

\* the error codes fetchComponentDefinitions may raise for a failed attempt
CodesOf(cause) ==
    CASE cause = "rate-limited" -> {"RATE_LIMIT_EXCEEDED"}
      [] cause = "rate-limited-bad-reset" -> {"NETWORK_ERROR"}
      [] cause = "bad-status" -> {"FETCH_ERROR"}
      [] cause = "network" -> {"NETWORK_ERROR"}
      [] cause = "timeout" -> {"TIMEOUT"}
      [] cause = "invalid-response" -> {"INVALID_RESPONSE"}
      [] cause = "no-components" -> {"NO_COMPONENTS_FOUND"}
      [] cause = "invalid-data" -> {"INVALID_DATA"}
      [] OTHER -> {}

Settled == observed.phase = "settled"

\* the held table is non-empty and younger than the freshness window at time t
FreshAt(t) ==
    /\ MapSize(components) > 0
    /\ lastFetch # NULL
    /\ t - ValueOf(lastFetch) < Min(cacheTimeout, MAX_CACHE_AGE)

\* the held table is non-empty and younger than the hard ceiling at time t
WithinCeilingAt(t) ==
    /\ MapSize(components) > 0
    /\ lastFetch # NULL
    /\ t - ValueOf(lastFetch) < MAX_CACHE_AGE

\* C1: a getComponents(false) call made while the held table is non-empty
\* and younger than min(cacheTimeout, MAX_CACHE_AGE) returns the held table
\* without a network attempt; a getComponents(true) call starts a fetch in
\* every cache state.
C1_FreshCacheServedForcedFetches ==
    /\ (observed.forceRefresh = Some(FALSE) /\ FreshAt(observed.now))
          => /\ Settled
             /\ observed.cause = "cached"
             /\ observed.attempts = 0
             /\ observed.result = Returned(components)
             /\ ~InFlight(observed.caller)
    /\ observed.forceRefresh = Some(TRUE)
          => /\ observed.phase = "started"
             /\ observed.attempts = 1
             /\ call[observed.caller].pc = "connecting"

\* a non-forced call, made after time has passed since the table was
\* stored, was served from the cache
C1_Witness ==
    /\ observed.forceRefresh = Some(FALSE)
    /\ FreshAt(observed.now)
    /\ observed.now > ValueOf(lastFetch)
    /\ observed.cause = "cached"
    /\ observed.result.kind = "table"

\* C2: when a refresh fails and a non-empty table younger than MAX_CACHE_AGE
\* is held, the call returns that table and not the error, and the failed
\* refresh leaves table and timestamp as they were; when no such table is
\* held the error is raised.
C2_FailedRefreshFallsBack ==
    /\ [](Settled /\ observed.cause \in FailureCauses
            => IF WithinCeilingAt(observed.now)
               THEN observed.result = Returned(components)
               ELSE /\ observed.result.kind = "error"
                    /\ observed.result.error.code \in CodesOf(observed.cause))
    /\ [][observed'.phase = "settled" /\ observed'.cause \in FailureCauses
            => UNCHANGED <<components, lastFetch>>]_vars

\* a failed refresh returned a table that is past the freshness window
C2_Witness ==
    /\ Settled
    /\ observed.cause = "network"
    /\ observed.result.kind = "table"
    /\ lastFetch # NULL
    /\ observed.now - ValueOf(lastFetch) >= cacheTimeout

\* C3: getComponents returns no held table whose age at the start of the
\* call is MAX_CACHE_AGE or more: such a table is not served as fresh and
\* not used as a fallback, a failed refresh raises the error although a
\* table is held.
C3_NoTableBeyondCeiling ==
    /\ observed.result.kind = "table"
          => /\ lastFetch # NULL
             /\ observed.now - ValueOf(lastFetch) < MAX_CACHE_AGE
    /\ (/\ Settled
        /\ observed.cause \in FailureCauses
        /\ MapSize(components) > 0
        /\ lastFetch # NULL
        /\ observed.now - ValueOf(lastFetch) >= MAX_CACHE_AGE)
          => observed.result.kind = "error"

\* a refresh failed while a table exactly as old as the ceiling was held
C3_Witness ==
    /\ Settled
    /\ observed.cause \in FailureCauses
    /\ MapSize(components) > 0
    /\ lastFetch # NULL
    /\ observed.now - ValueOf(lastFetch) = MAX_CACHE_AGE
    /\ observed.result.kind = "error"

\* C4: a response with status 403 and x-ratelimit-remaining "0" ends
\* fetchComponentDefinitions at once: no retry delay is waited and no
\* further attempt is made after it.
C4_RateLimitNotRetried ==
    observed.cause = "rate-limited"
       => /\ Settled
          /\ observed.result.kind = "error"
                => /\ observed.result.error.code = "RATE_LIMIT_EXCEEDED"
                   /\ observed.result.error.resetTime # "none"

\* C5: fetchComponentDefinitions makes at most retryAttempts+1 attempts; it
\* returns the body of the first successful attempt and makes no attempt
\* after it; when every attempt fails it makes exactly retryAttempts+1
\* attempts, waits retryDelay between consecutive attempts and not after
\* the last one, and raises the error of the last attempt.
C5_BoundedRetry ==
    /\ [](/\ \A c \in Callers :
                /\ call[c].attempts <= retryAttempts + 1
                /\ InFlight(c) => call[c].delays = call[c].attempts - 1
          /\ (Settled /\ observed.cause \in FetchFailureCauses)
                => /\ observed.attempts = retryAttempts + 1
                   /\ observed.delays = retryAttempts
                   /\ ~InFlight(observed.caller)
                   /\ observed.result.kind = "error"
                         => observed.result.error.code \in CodesOf(observed.cause)
          /\ observed.phase = "retrying"
                => /\ observed.cause \in FetchFailureCauses
                   /\ observed.attempts <= retryAttempts
                   /\ call[observed.caller].pc = "backoff"
                   /\ call[observed.caller].timer = clock + retryDelay
          /\ (Settled /\ observed.cause \in {"loaded", "no-components"})
                => /\ observed.attempts <= retryAttempts + 1
                   /\ observed.delays = observed.attempts - 1
                   /\ ~InFlight(observed.caller))
    /\ [][\A c \in Callers :
            (call[c].pc = "backoff" /\ call'[c].pc # "backoff")
               => /\ call'[c].pc = "connecting"
                  /\ clock >= call[c].timer
                  /\ call'[c].attempts = call[c].attempts + 1]_vars

\* every attempt of a call failed, the last one on a bad status, after
\* more than one attempt
C5_Witness ==
    /\ Settled
    /\ observed.cause = "bad-status"
    /\ observed.attempts = retryAttempts + 1
    /\ observed.attempts > 1
    /\ observed.result.kind = "error"
    /\ observed.result.error.code = "FETCH_ERROR"

\* the status the classification rules give
ExpectedStatus(category, level) ==
    IF category = "caution" THEN "USE_WITH_CAUTION"
    ELSE IF level = "best_practice" THEN "RECOMMENDED"
    ELSE IF level = "deployed" THEN "STABLE"
    ELSE IF level = "candidate" THEN "EXPERIMENTAL"
    ELSE IF level = "available" THEN "AVAILABLE_WITH_ISSUES"
    ELSE "UNKNOWN"

\* table is the whole result of parsing one accepted document
CompleteTable(table) ==
    /\ MapSize(table) > 0
    /\ \E doc \in Docs :
          /\ doc.len >= MIN_CONTENT_LENGTH
          /\ table = ParsedDocs[doc]

\* C6: a non-empty held table always has a timestamp, and the held table
\* changes only in a step that settles a call with a successful fetch and
\* parse of at least one component, which replaces the table as a whole and
\* sets the timestamp to the start time of that call.
C6_TableHasTimestampReplacedWhole ==
    /\ [](MapSize(components) > 0 => lastFetch # NULL)
    /\ [][(components' # components \/ lastFetch' # lastFetch)
            => /\ observed'.phase = "settled"
               /\ observed'.cause = "loaded"
               /\ CompleteTable(components')
               /\ observed'.result = Returned(components')
               /\ lastFetch' = Some(observed'.now)]_vars

\* a held table was replaced by a different one while the other caller
\* had a refresh in flight
C6_Witness ==
    /\ Settled
    /\ observed.cause = "loaded"
    /\ observed.now > StartTime
    /\ components = observed.result.table
    /\ MapKeys(components) = {"VaButton"}
    /\ \E c \in Callers : InFlight(c) /\ call[c].now < observed.now

\* C7: a table returned by getComponents while another call is refreshing
\* is the complete result of one successful parse: never empty, partly
\* built or mixed from two parses.
C7_ReadersSeeCompleteTable ==
    /\ observed.result.kind = "table" => CompleteTable(observed.result.table)
    /\ MapSize(components) > 0 => CompleteTable(components)

\* a call was served the held table while the other caller's refresh was
\* reading a response body
C7_Witness ==
    /\ Settled
    /\ observed.cause = "cached"
    /\ CompleteTable(observed.result.table)
    /\ \E c \in Callers : c # observed.caller /\ call[c].pc = "reading"

\* C8: a successful response whose body is empty or shorter than 100
\* characters is never returned as document text: the attempt fails with
\* INVALID_RESPONSE and is retried or surfaced like any failed attempt.
C8_ShortBodyIsInvalidResponse ==
    (observed.body # NULL /\ ValueOf(observed.body) < 100)
       => /\ observed.cause = "invalid-response"
          /\ \/ /\ observed.phase = "retrying"
                /\ observed.attempts <= retryAttempts
                /\ call[observed.caller].pc = "backoff"
             \/ /\ Settled
                /\ observed.attempts = retryAttempts + 1
                /\ IF WithinCeilingAt(observed.now)
                   THEN observed.result = Returned(components)
                   ELSE observed.result = Thrown(Error("INVALID_RESPONSE"))

\* a body of 99 characters ended a call with INVALID_RESPONSE
C8_Witness ==
    /\ observed.body = Some(99)
    /\ Settled
    /\ observed.result = Thrown(Error("INVALID_RESPONSE"))

\* C9: a document from which no component is parsed fails the refresh: the
\* held table is never replaced by an empty one, no empty table is
\* returned, and without a usable held table the call raises
\* NO_COMPONENTS_FOUND.
C9_NoComponentsIsFailure ==
    /\ lastFetch # NULL => MapSize(components) > 0
    /\ observed.result.kind = "table" => MapSize(observed.result.table) > 0
    /\ observed.cause = "no-components"
          => /\ Settled
             /\ IF WithinCeilingAt(observed.now)
                THEN observed.result = Returned(components)
                ELSE observed.result = Thrown(Error("NO_COMPONENTS_FOUND"))

\* a document without components ended a call with NO_COMPONENTS_FOUND
\* although a table, older than the ceiling, was held
C9_Witness ==
    /\ observed.cause = "no-components"
    /\ observed.body # NULL
    /\ observed.result = Thrown(Error("NO_COMPONENTS_FOUND"))
    /\ MapSize(components) > 0

\* C10: classification is total and a function of (category, level):
\* caution gives USE_WITH_CAUTION whatever the level, otherwise the level
\* decides, any other level giving UNKNOWN; and getRecommendation gives one
\* sentence per status.
C10_ClassificationTotal ==
    /\ cl_status # "none"
          => /\ cl_status \in Statuses
             /\ cl_status = ExpectedStatus(cl_category, cl_level)
    /\ cl_rec # "none"
          => /\ cl_rec # ""
             /\ \A c \in Categories, l \in Levels :
                   determineComponentStatus(c, l)
                      = determineComponentStatus(cl_category, cl_level)
                   => getRecommendation(c, l) = cl_rec

\* a caution component of the best_practice level was classified
C10_Witness ==
    /\ cl_category = "caution"
    /\ cl_level = "best_practice"
    /\ cl_status = "USE_WITH_CAUTION"
    /\ cl_rec = "Use with caution - may have known issues or be under evaluation"

-----------------------------------------------------------------------------
(* Properties of the metadata parse *)

InterfacePlaces(items) == {i \in DOMAIN items : items[i].kind = "interface"}

\* the places before place j where a documentation comment ends
CommentsBefore(items, j) ==
    {k \in 1..(j - 1) :
        \/ items[k].kind = "comment"
        \/ /\ items[k].kind = "interface"
           /\ \E n \in DOMAIN items[k].interfaceBody :
                 includes(items[k].interfaceBody[n], "/**")}

\* the tag lines of the last documentation comment that ends before place j
NearestLines(items, j) ==
    LET k == CHOOSE c \in CommentsBefore(items, j) :
                \A d \in CommentsBefore(items, j) : d <= c
    IN IF items[k].kind = "comment" THEN items[k].lines ELSE << >>

\* the first line of a comment that carries the tag
FirstLineOf(lines, tag) ==
    lines[CHOOSE n \in DOMAIN lines :
             lines[n].tag = tag /\ \A m \in 1..(n - 1) : lines[m].tag # tag]

\* a documentation comment ends before place j and it carries the three
\* required tags
AnnotatedAt(items, j) ==
    IF CommentsBefore(items, j) = {} THEN FALSE
    ELSE \A tag \in RequiredTags :
            \E n \in DOMAIN NearestLines(items, j) : NearestLines(items, j)[n].tag = tag

\* v is the text raw without the white space around it
IsTrimOf(v, raw) ==
    \E i \in 1..(Len(raw) + 1), j \in 0..Len(raw) :
        /\ v = SubSeq(raw, i, j)
        /\ \A k \in 1..(i - 1) : CharAt(raw, k) \in Whitespace
        /\ \A k \in (j + 1)..Len(raw) : CharAt(raw, k) \in Whitespace
        /\ CharAt(v, 1) \notin Whitespace
        /\ CharAt(v, Len(v)) \notin Whitespace

\* the k-th smallest element of a set of places
Nth(S, k) == CHOOSE i \in S : Cardinality({j \in S : j < i}) = k - 1

\* the place where the text of the interface block at place i occurs first
FirstPlaceOf(items, i) ==
    CHOOSE j \in 1..i : items[j] = items[i] /\ \A k \in 1..(j - 1) : items[k] # items[i]

\* blocks holds, in text order, one block for each interface place whose
\* comment, searched before the place From gives for it, carries the three
\* required tags, with the interface's name and body and the values of
\* that comment's tags, and no other block
BlocksFollow(blocks, items, From(_)) ==
    LET kept == {i \in InterfacePlaces(items) : AnnotatedAt(items, From(i))}
    IN /\ Len(blocks) = Cardinality(kept)
       /\ \A k \in DOMAIN blocks :
             LET i == Nth(kept, k)
                 lines == NearestLines(items, From(i))
             IN /\ blocks[k].interfaceName = items[i].interfaceName
                /\ blocks[k].interfaceBody = items[i].interfaceBody
                /\ IsTrimOf(blocks[k].componentName,
                            FirstLineOf(lines, "componentName").rest)
                /\ IsTrimOf(blocks[k].maturityCategory,
                            FirstLineOf(lines, "maturityCategory").rest)
                /\ IsTrimOf(blocks[k].maturityLevel,
                            FirstLineOf(lines, "maturityLevel").rest)

\* C11: an interface block whose selected comment (the last one before the
\* place the extractor searches from) lacks @componentName,
\* @maturityCategory or @maturityLevel yields no block and no record: the
\* emitted blocks are exactly those of the interface blocks whose selected
\* comment carries all three tags, with the values of that comment, and
\* every record of the table is keyed by the name of such a block.
C11_MissingTagDropsBlock ==
    /\ pm_blocks # NULL
          => BlocksFollow(ValueOf(pm_blocks), pm_content.items,
                          LAMBDA i : FirstPlaceOf(pm_content.items, i))
    /\ pm_components # NULL
          => \A key \in MapKeys(ValueOf(pm_components)) :
                \E i \in InterfacePlaces(pm_content.items) :
                   /\ pm_content.items[i].interfaceName = key
                   /\ AnnotatedAt(pm_content.items, FirstPlaceOf(pm_content.items, i))

\* a complete comment, then a comment without @maturityLevel, then the
\* interface: nothing was extracted and the table is empty
C11_Witness ==
    /\ pm_content.items = << CommentButton, CommentNoLevel, InterfaceButton >>
    /\ pm_blocks = Some(<< >>)
    /\ pm_components = Some(EmptyMap)

\* C12: the metadata of every interface block comes from the last
\* documentation comment that ends before the block's own start, also
\* when the text of the block occurs more than once in the document.
C12_NearestCommentAttached ==
    pm_blocks # NULL
       => BlocksFollow(ValueOf(pm_blocks), pm_content.items, LAMBDA i : i)

\* C13: a document with exactly one interface block, annotated with a
\* well-formed comment, parses to exactly one record, keyed by the
\* interface name, with the trimmed tag values, the classification of
\* (category, level) and the properties of the body in order.
C13_OneBlockRoundTrip ==
    LET items == pm_content.items
        places == InterfacePlaces(items)
    IN (/\ pm_components # NULL
        /\ Cardinality(places) = 1
        /\ \A i \in places :
              /\ AnnotatedAt(items, i)
              /\ trim(FirstLineOf(NearestLines(items, i), "componentName").rest) # "")
       => LET i == CHOOSE x \in places : TRUE
              lines == NearestLines(items, i)
              table == ValueOf(pm_components)
              record == table[1][2]
              href == {n \in DOMAIN lines : lines[n].tag = "guidanceHref"}
              translations == SelectSeq(lines, LAMBDA l : l.tag = "translations")
          IN /\ MapSize(table) = 1
             /\ table[1][1] = items[i].interfaceName
             /\ record.interfaceName = items[i].interfaceName
             /\ IsTrimOf(record.name, FirstLineOf(lines, "componentName").rest)
             /\ IsTrimOf(record.maturityCategory,
                         FirstLineOf(lines, "maturityCategory").rest)
             /\ IsTrimOf(record.maturityLevel,
                         FirstLineOf(lines, "maturityLevel").rest)
             /\ IF href = {} THEN record.guidanceHref = NULL
                ELSE /\ record.guidanceHref # NULL
                     /\ IsTrimOf(ValueOf(record.guidanceHref),
                                 FirstLineOf(lines, "guidanceHref").rest)
             /\ Len(record.translations) = Len(translations)
             /\ \A n \in DOMAIN translations :
                   IsTrimOf(record.translations[n], translations[n].rest)
             /\ record.status =
                   ExpectedStatus(record.maturityCategory, record.maturityLevel)
             /\ record.recommendation =
                   getRecommendation(record.maturityCategory, record.maturityLevel)
             /\ record.properties = parseInterfaceProperties(items[i].interfaceBody)
             /\ items[i].interfaceBody = << "", "  text?: string;" >>
                   => record.properties =
                         << [name |-> "text", type |-> "string", optional |-> TRUE,
                             description |-> NULL] >>

\* the comment of Button with padded values before the one interface
\* VaButton gave the record of a STABLE component with one optional property
C13_Witness ==
    /\ pm_content.items = << CommentPlain, CommentButton, InterfaceButton >>
    /\ pm_components =
          Some(<< << "VaButton",
                     [name |-> "Button", interfaceName |-> "VaButton",
                      maturityCategory |-> "use", maturityLevel |-> "deployed",
                      guidanceHref |-> Some("button/"),
                      translations |-> << "es", "es" >>,
                      properties |-> << [name |-> "text", type |-> "string",
                                         optional |-> TRUE, description |-> NULL] >>,
                      status |-> "STABLE",
                      recommendation |-> "Safe for production use - actively deployed",
                      tagName |-> "va-button"] >> >>)

-----------------------------------------------------------------------------
(* Properties of the property parse *)

\* the text of a documentation-comment line without its markers: the
\* opening /** or the leading *, and the closing */
StrippedText(trimmedLine) ==
    LET opened == IF startsWith(trimmedLine, "/**")
                  THEN SubSeq(trimmedLine, 4, Len(trimmedLine))
                  ELSE IF startsWith(trimmedLine, "*/") THEN ""
                  ELSE SubSeq(trimmedLine, 2, Len(trimmedLine))
        closed == IF endsWith(opened, "*/")
                  THEN SubSeq(opened, 1, Len(opened) - 2)
                  ELSE opened
    IN trim(closed)

\* the descriptions the properties of the lines get when the buffer holds
\* the stripped text of the comment lines since the last blank line or
\* property, joined by single spaces
RECURSIVE Described(_, _)
Described(lines, buffer) ==
    IF lines = << >> THEN << >>
    ELSE LET t == trim(Head(lines))
         IN IF t = "" THEN Described(Tail(lines), "")
            ELSE IF IsCommentLine(t)
            THEN Described(Tail(lines),
                           IF StrippedText(t) = "" THEN buffer
                           ELSE IF buffer = "" THEN StrippedText(t)
                           ELSE buffer \o " " \o StrippedText(t))
            ELSE IF PropertyMatch(t)
            THEN << IF buffer = "" THEN NULL ELSE Some(buffer) >>
                    \o Described(Tail(lines), "")
            ELSE Described(Tail(lines), buffer)

\* C14: the description of each emitted property is the text of the
\* comment lines since the last blank line or emitted property, markers
\* stripped, joined by single spaces, or null when there is none.
C14_DescriptionIsStrippedComment ==
    ip_properties # NULL
       => LET properties == ValueOf(ip_properties)
              expected == Described(ip_body, "")
          IN /\ Len(properties) = Len(expected)
             /\ \A k \in DOMAIN properties :
                   properties[k].description = expected[k]

-----------------------------------------------------------------------------
(* Properties of the semantic analysis *)

RoleLists ==
    << "visibleTextProps", "accessibilityProps", "stateProps", "configProps",
       "eventProps", "slotProps" >>

\* the test of the n-th role list on a property
Satisfies(n, prop) ==
    LET propName == toLowerCase(prop.name)
        propType == toLowerCase(prop.type)
    IN CASE n = 1 -> isVisibleContentProp(propName, propType)
         [] n = 2 -> isAccessibilityProp(propName, propType)
         [] n = 3 -> isStateProp(propName, propType)
         [] n = 4 -> isConfigProp(propName, propType)
         [] n = 5 -> isEventProp(propName, propType)
         [] n = 6 -> isSlotProp(propName, propType)

\* C20: each role list holds, in order, the properties that satisfy its
\* test and none of the earlier tests, so that a property is in at most
\* one list and a property satisfying no test is in none; isFormRelated
\* and hasConditionalContent depend on the property names alone.
C20_FirstMatchingRole ==
    sa_analysis # NULL
       => LET analysis == ValueOf(sa_analysis)
          IN /\ \A n \in DOMAIN RoleLists :
                   analysis[RoleLists[n]] =
                      SelectSeq(sa_properties,
                                LAMBDA q : /\ Satisfies(n, q)
                                           /\ \A m \in 1..(n - 1) : ~Satisfies(m, q))
             /\ \A k \in DOMAIN sa_properties :
                   Cardinality({n \in DOMAIN RoleLists :
                                   \E i \in DOMAIN analysis[RoleLists[n]] :
                                      analysis[RoleLists[n]][i] = sa_properties[k]}) <= 1
             /\ analysis.isFormRelated
                   <=> \E k \in DOMAIN sa_properties :
                          isFormRelatedProp(toLowerCase(sa_properties[k].name))
             /\ analysis.hasConditionalContent
                   <=> \E k \in DOMAIN sa_properties :
                          isConditionalProp(toLowerCase(sa_properties[k].name))

\* ariaDisabled passes the accessibility and the state test and went to
\* the accessibility list only; errorText is visible text and sets the
\* form flag
C20_Witness ==
    /\ sa_properties = << Prop("ariaDisabled", "boolean", TRUE),
                          Prop("errorText", "string", TRUE) >>
    /\ sa_analysis # NULL
    /\ ValueOf(sa_analysis).accessibilityProps = << Prop("ariaDisabled", "boolean", TRUE) >>
    /\ ValueOf(sa_analysis).stateProps = << >>
    /\ ValueOf(sa_analysis).visibleTextProps = << Prop("errorText", "string", TRUE) >>
    /\ ValueOf(sa_analysis).isFormRelated
    /\ ~ValueOf(sa_analysis).hasConditionalContent

-----------------------------------------------------------------------------
(* Properties of the retry configuration *)

\* an option clamped to [low, high], the default when it is not given
ClampedOption(opt, default, low, high) ==
    IF opt = NULL THEN default
    ELSE IF ValueOf(opt) < low THEN low
    ELSE IF ValueOf(opt) > high THEN high
    ELSE ValueOf(opt)

\* C19: the retry count in use is options.retryAttempts clamped to [0,5]
\* and the delay in use is options.retryDelay clamped to [1000,10000], the
\* defaults 2 and 2000 applying only when the option is not given; a
\* refresh that fails has made the clamped count plus one attempts, so
\* exactly one with retryAttempts 0.
C19_RetryOptionsClamped ==
    cfg_options # NULL
       => LET options == ValueOf(cfg_options)
              attempts == ClampedOption(options.retryAttempts, DEFAULT_RETRY_ATTEMPTS,
                                        0, MAX_RETRY_ATTEMPTS)
              delay == ClampedOption(options.retryDelay, DEFAULT_RETRY_DELAY,
                                     MIN_RETRY_DELAY, MAX_RETRY_DELAY)
          IN /\ retryAttempts = attempts
             /\ retryDelay = delay
             /\ (observed.phase = "settled" /\ observed.result.kind = "error")
                   => observed.attempts = attempts + 1

-----------------------------------------------------------------------------
(* Properties of the lookup operations *)

SameText(a, b) == toLowerCase(a) = toLowerCase(b)

\* the name, the tag name or the interface name of the component is q
\* but for the case of the letters
Named(component, q) ==
    \/ SameText(component.name, q)
    \/ component.tagName # NoTagName /\ SameText(component.tagName, q)
    \/ SameText(component.interfaceName, q)

\* the name or the tag name of the component contains q but for the case
\* of the letters
Mentions(component, q) ==
    \/ includes(toLowerCase(component.name), toLowerCase(q))
    \/ /\ component.tagName # NoTagName
       /\ includes(toLowerCase(component.tagName), toLowerCase(q))

\* C15: getComponentByName(q), q taken without the white space around it,
\* returns a component named q whenever the table holds one, wherever it
\* stands; a component that only mentions q when none is named q; and
\* null, not an error, when there is neither.
C15_ExactMatchBeforeSubstring ==
    (api.pc = "done" /\ api.op = "getComponentByName" /\ api.awaited.kind = "table")
       => LET q == trim(api.arg.text)
              table == MapValues(api.awaited.table)
              returned == api.outcome.value
              Holds(Test(_, _)) == \E n \in DOMAIN table : Test(table[n], q)
              Returns(Test(_, _)) ==
                  /\ returned # NULL
                  /\ \E n \in DOMAIN table : table[n] = ValueOf(returned)
                  /\ Test(ValueOf(returned), q)
          IN /\ api.outcome.kind = "value"
             /\ IF Holds(Named) THEN Returns(Named)
                ELSE IF Holds(Mentions) THEN Returns(Mentions)
                ELSE returned = NULL

\* Button was asked for: the table begins with Button Icon, which mentions
\* it, and the component named Button was returned
C15_Witness ==
    /\ api.pc = "done"
    /\ api.op = "getComponentByName"
    /\ api.arg = JsString("Button")
    /\ api.awaited.kind = "table"
    /\ api.awaited.table[1][2].name = "Button Icon"
    /\ api.outcome.kind = "value"
    /\ api.outcome.value # NULL
    /\ ValueOf(api.outcome.value).interfaceName = "VaButton"

ValidatedOperations == {"getComponents", "getComponentByName", "getComponentsByStatus"}

\* the argument as the claim describes it: measured and compared as given
BadArgumentAsGiven(op, arg) ==
    CASE op = "getComponents" -> arg.type # "boolean"
      [] op = "getComponentByName" ->
           \/ arg.type # "string"
           \/ arg.text = ""
           \/ Len(arg.text) > 100
           \/ HasForbiddenChars(arg.text)
      [] op = "getComponentsByStatus" ->
           arg.type # "string" \/ arg.text \notin Statuses
      [] OTHER -> FALSE

\* the argument measured and compared without the white space around it,
\* the status in upper case
BadArgument(op, arg) ==
    CASE op = "getComponents" -> arg.type # "boolean"
      [] op = "getComponentByName" ->
           \/ arg.type # "string"
           \/ trim(arg.text) = ""
           \/ Len(trim(arg.text)) > 100
           \/ HasForbiddenChars(arg.text)
      [] op = "getComponentsByStatus" ->
           \/ arg.type # "string"
           \/ trim(arg.text) = ""
           \/ HasForbiddenChars(arg.text)
           \/ toUpperCase(trim(arg.text)) \notin Statuses
      [] OTHER -> FALSE

\* a step that brings in an operation with a bad argument is the whole
\* operation: it ends with INVALID_INPUT or INVALID_STATUS, no call of
\* getComponents is started or resumed and the cache is as it was
FailsFast(Bad(_, _)) ==
    (api' # api /\ api'.op \in ValidatedOperations /\ Bad(api'.op, api'.arg))
       => /\ api'.pc = "done"
          /\ api'.outcome.kind = "error"
          /\ api'.outcome.error.code \in {"INVALID_INPUT", "INVALID_STATUS"}
          /\ UNCHANGED <<components, lastFetch, call>>

\* C17 as stated: a name of more than 100 characters and a status that is
\* not literally one of the six values are rejected before any fetch.
C17_BadArgumentsFailFast == [][FailsFast(BadArgumentAsGiven)]_vars

\* C17, amended: getComponentByName with a null, non-string, empty or
\* blank name, a name with one of < > ' " or a name of more than 100
\* characters after trimming, getComponentsByStatus with such a status or
\* one that is none of the six values after trimming and upper-casing,
\* and getComponents with a non-boolean forceRefresh raise INVALID_INPUT
\* or INVALID_STATUS before any fetch attempt and leave table and
\* timestamp unchanged.
C17_SanitizedArgumentsFailFast == [][FailsFast(BadArgument)]_vars

\* a name of 101 letters was rejected while the monitor held a table
C17_Witness ==
    /\ api.pc = "done"
    /\ api.op = "getComponentByName"
    /\ api.arg = JsString(Repeat("a", 101))
    /\ api.outcome = Failure(Error("INVALID_INPUT"))
    /\ MapSize(components) > 0
    /\ ~InFlight(1)

\* C18: every error an operation of the monitor ends with is a
\* VAComponentError whose code is a value of ErrorCodes.
C18_ErrorsCarryCodes ==
    (api.pc = "done" /\ api.outcome.kind = "error")
       => api.outcome.error.code \in ErrorCodes

-----------------------------------------------------------------------------
(* Properties of the inferred purpose *)

\* the results of inferPurposeFromProperties, in the order of its tests
PurposeRules ==
    << "action", "input", "notification", "navigation", "container", "data" >>

\* some property of the list has a name containing one of the fragments
\* (as written, without change of case)
NameContains(list, fragments) ==
    \E n \in DOMAIN list : \E fragment \in fragments : includes(list[n].name, fragment)

\* the condition of the rule that gives the purpose
RuleMatches(purpose, analysis) ==
    CASE purpose = "action" -> NameContains(analysis.eventProps, {"click", "submit"})
      [] purpose = "input" ->
            /\ analysis.isFormRelated
            /\ \E n \in DOMAIN analysis.visibleTextProps :
                  analysis.visibleTextProps[n].name = "label"
      [] purpose = "notification" ->
            /\ \E n \in DOMAIN analysis.configProps :
                  analysis.configProps[n].name = "status"
            /\ NameContains(analysis.visibleTextProps, {"message", "headline"})
      [] purpose = "navigation" -> NameContains(analysis.configProps, {"href", "link"})
      [] purpose = "container" ->
            \/ analysis.hasSlots
            \/ NameContains(analysis.visibleTextProps, {"headline"})
      [] purpose = "data" -> NameContains(analysis.configProps, {"data", "list"})

MatchingRules(analysis) ==
    {k \in DOMAIN PurposeRules : RuleMatches(PurposeRules[k], analysis)}

HasLabel(properties) == \E k \in DOMAIN properties : properties[k].name = "label"

\* C22: a component that is form-related, has a property named label and
\* has no click- or submit-named event property is given the inferred
\* purpose "input".
C22_FormWithLabelIsInput ==
    sa_analysis # NULL
       => LET analysis == ValueOf(sa_analysis)
          IN (/\ analysis.isFormRelated
              /\ HasLabel(sa_properties)
              /\ ~NameContains(analysis.eventProps, {"click", "submit"}))
                => analysis.inferredPurpose = "input"

-----------------------------------------------------------------------------
(* The synthesis of examples from a component's properties *)

\* String.prototype.split
RECURSIVE split(_, _)
split(s, separator) ==
    LET at == indexOf(s, separator)
    IN IF at = 0 THEN << s >>
       ELSE << SubSeq(s, 1, at - 1) >>
               \o split(SubSeq(s, at + Len(separator), Len(s)), separator)

\* s.replace(/[...]/g, ''): the characters of the set S are removed
RECURSIVE RemoveChars(_, _)
RemoveChars(s, S) ==
    IF s = "" THEN ""
    ELSE IF Len(s) = 1 THEN (IF s \in S THEN "" ELSE s)
    ELSE RemoveChars(SubSeq(s, 1, Len(s) \div 2), S)
            \o RemoveChars(SubSeq(s, Len(s) \div 2 + 1, Len(s)), S)

\* list.find(p => test(p)): NULL when there is none
Find(list, Test(_)) ==
    LET found == SelectSeq(list, Test)
    IN IF found = << >> THEN NULL ELSE Some(Head(found))

\* [a, b].filter(Boolean) of the results of find
Found(results) ==
    LET kept == SelectSeq(results, LAMBDA r : r # NULL)
    IN [k \in DOMAIN kept |-> ValueOf(kept[k])]

\* list.includes(prop)
Includes(list, prop) == \E n \in DOMAIN list : list[n] = prop

\* list.slice(0, n)
Slice(list, n) == SubSeq(list, 1, Min(n, Len(list)))

\* ` ${name}="${value}"`
Attr(name, value) == " " \o name \o "=\"" \o value \o "\""

\* propType.split('|').map(s => s.trim().replace(/['"]/g, ''))
\*    .filter(opt => opt !== 'undefined' && opt.length > 0)
MeaningfulOptions(propType) ==
    LET parts == split(propType, "|")
        options == [k \in DOMAIN parts |-> RemoveChars(trim(parts[k]), {"'", "\""})]
    IN SelectSeq(options, LAMBDA opt : opt # "undefined" /\ Len(opt) > 0)

getGenericExampleValue(prop) ==
    LET name == toLowerCase(prop.name)
        type == toLowerCase(prop.type)
    IN IF includes(name, "label") THEN "Descriptive label for screen readers"
       ELSE IF includes(name, "aria") /\ includes(name, "describedby")
       THEN "additional-info"
       ELSE IF includes(name, "aria") THEN "ARIA attribute value"
       ELSE IF includes(type, "boolean") THEN "true"
       ELSE IF includes(type, "number")
       THEN (IF includes(name, "level") THEN "2"
             ELSE IF includes(name, "timeout") THEN "5000"
             ELSE "1")
       ELSE IF includes(type, "string")
       THEN (IF name = "text" THEN "Click me"
             ELSE IF name = "label" THEN "Button label"
             ELSE IF name = "headline" THEN "Important Notice"
             ELSE IF name = "status" THEN "info"
             ELSE IF name = "variant" THEN "primary"
             ELSE IF name = "type" THEN "button"
             ELSE IF includes(name, "url") \/ includes(name, "href")
             THEN "https://va.gov"
             ELSE IF includes(name, "id") THEN "unique-id"
             ELSE IF includes(name, "class") THEN "custom-class"
             ELSE "Example value")
       ELSE IF includes(type, "array") THEN "[]"
       ELSE IF includes(type, "object") THEN "{}"
       ELSE "value"

\* switch (analysis.inferredPurpose): NULL when the switch is left by break
PurposeValue(propName, analysis) ==
    LET purpose == analysis.inferredPurpose
    IN IF purpose = "action"
       THEN (IF propName = "text" THEN Some("Submit Application")
             ELSE IF propName = "label" THEN Some("Submit your application")
             ELSE IF includes(propName, "submit") THEN Some("true")
             ELSE IF propName = "type" THEN Some("submit")
             ELSE NULL)
       ELSE IF purpose = "notification"
       THEN (IF includes(propName, "headline") THEN Some("Important Update")
             ELSE IF propName = "status" THEN Some("info")
             ELSE IF propName = "visible" THEN Some("true")
             ELSE NULL)
       ELSE IF purpose = "input"
       THEN (IF propName = "label"
             THEN (IF analysis.isFormRelated THEN Some("Select one historical figure")
                   ELSE Some("Email Address"))
             ELSE IF propName = "name" THEN Some("email")
             ELSE IF propName = "required" THEN Some("true")
             ELSE NULL)
       ELSE IF purpose = "navigation"
       THEN (IF propName = "label" THEN Some("Navigation")
             ELSE IF includes(propName, "href") THEN Some("/example-page")
             ELSE NULL)
       ELSE IF purpose = "container"
       THEN (IF includes(propName, "headline") THEN Some("Service Information")
             ELSE NULL)
       ELSE NULL

generateSemanticValue(prop, analysis) ==
    LET propName == toLowerCase(prop.name)
        propType == toLowerCase(prop.type)
    IN IF includes(propType, "array") \/ includes(propType, "[]")
       THEN (IF includes(propName, "breadcrumb")
             THEN "[{\"href\": \"/\", \"label\": \"Home\"}, {\"label\": \"Current Page\"}]"
             ELSE "[]")
       ELSE IF includes(propType, "|") /\ MeaningfulOptions(propType) # << >>
       THEN Head(MeaningfulOptions(propType))
       ELSE IF PurposeValue(propName, analysis) # NULL
       THEN ValueOf(PurposeValue(propName, analysis))
       ELSE IF analysis.isFormRelated /\ propName = "label"
       THEN "Select one historical figure"
       ELSE IF includes(propType, "boolean") THEN "true"
       ELSE IF includes(propType, "number")
       THEN (IF includes(propName, "level") THEN "2"
             ELSE IF includes(propName, "timeout") THEN "5000"
             ELSE "1")
       ELSE IF includes(propType, "object") THEN "{}"
       ELSE getGenericExampleValue(prop)

getEssentialConfigProps(analysis) ==
    IF analysis.inferredPurpose = "notification"
    THEN Found(<< Find(analysis.configProps, LAMBDA q : q.name = "status"),
                  Find(analysis.stateProps, LAMBDA q : q.name = "visible") >>)
    ELSE IF analysis.inferredPurpose = "action"
    THEN LET typeProp == Find(analysis.configProps, LAMBDA q : q.name = "type")
             variantProp == Find(analysis.configProps, LAMBDA q : q.name = "variant")
         IN Found(<< IF typeProp # NULL THEN typeProp ELSE variantProp >>)
    ELSE Slice(analysis.configProps, 1)

generateSlotContent(analysis) ==
    IF analysis.inferredPurpose = "notification" /\ analysis.hasSlots
    THEN "\n  <h2 slot=\"headline\">Important Update</h2>\n  <p>Please review the updated information before proceeding.</p>\n"
    ELSE IF analysis.inferredPurpose = "container" /\ analysis.hasSlots
    THEN "\n  <h2 slot=\"headline\">Service Information</h2>\n  <p>Learn about the benefits and services available to you.</p>\n"
    ELSE ""

\* the composite patterns: pattern is the text the tag name ends with
compositePatterns ==
    << [pattern |-> "va-radio", childElement |-> "va-radio-option",
        childCount |-> [min |-> 2, max |-> 4, default |-> 3],
        childProps |-> << "label", "name", "value" >>,
        purpose |-> "form-choice-group"],
       [pattern |-> "va-checkbox-group", childElement |-> "va-checkbox",
        childCount |-> [min |-> 2, max |-> 3, default |-> 2],
        childProps |-> << "label", "name" >>,
        purpose |-> "form-choice-group"],
       [pattern |-> "va-accordion", childElement |-> "va-accordion-item",
        childCount |-> [min |-> 2, max |-> 3, default |-> 2],
        childProps |-> << "header" >>,
        purpose |-> "collapsible-container"],
       [pattern |-> "va-button-pair", childElement |-> "va-button",
        childCount |-> [min |-> 2, max |-> 2, default |-> 2],
        childProps |-> << "text" >>,
        purpose |-> "action-group"],
       [pattern |-> "va-table", childElement |-> "tr",
        childCount |-> [min |-> 2, max |-> 3, default |-> 2],
        childProps |-> << >>,
        purpose |-> "data-table"] >>

\* compositePatterns.find(pattern => pattern.pattern.test(tagName))
detectCompositeComponent(tagName) ==
    Find(compositePatterns, LAMBDA info : endsWith(tagName, info.pattern))

choiceLabels ==
    << "Sojourner Truth", "Frederick Douglass", "Booker T. Washington",
       "George Washington Carver" >>

generateChildPropValue(propDef, compositeInfo, index) ==
    LET propName == toLowerCase(propDef)
    IN IF compositeInfo.purpose = "form-choice-group" /\ propName = "label"
       THEN (IF index \in DOMAIN choiceLabels THEN choiceLabels[index]
             ELSE "Option " \o ToString(index))
       ELSE IF compositeInfo.purpose = "form-choice-group" /\ propName = "name"
       THEN "group"
       ELSE IF compositeInfo.purpose = "form-choice-group" /\ propName = "value"
       THEN ToString(index)
       ELSE IF compositeInfo.purpose = "collapsible-container" /\ propName = "header"
       THEN "Section " \o ToString(index)
       ELSE IF compositeInfo.purpose = "action-group" /\ propName = "text"
       THEN (IF index = 1 THEN "Continue" ELSE "Back")
       ELSE "value-" \o ToString(index)

generateChildProps(compositeInfo, index) ==
    join([k \in DOMAIN compositeInfo.childProps |->
             Attr(compositeInfo.childProps[k],
                  generateChildPropValue(compositeInfo.childProps[k],
                                         compositeInfo, index))], "")

\* the child element of the given index
ChildElement(compositeInfo, index) ==
    IF compositeInfo.purpose = "data-table"
    THEN "\n  <" \o compositeInfo.childElement \o "><td>Row " \o ToString(index)
            \o " Data</td></" \o compositeInfo.childElement \o ">"
    ELSE "\n  <" \o compositeInfo.childElement
            \o generateChildProps(compositeInfo, index)
            \o "></" \o compositeInfo.childElement \o ">"

\* mutant: the smallest number of children instead of the default number
generateCompositeChildrenMin(compositeInfo) ==
    join([i \in 1..compositeInfo.childCount.min |-> ChildElement(compositeInfo, i)],
         "") \o "\n"

generateCompositeChildren(compositeInfo) ==
    join([i \in 1..compositeInfo.childCount.default |->
             ChildElement(compositeInfo, i)], "") \o "\n"

\* the attributes the forEach loops of the generators append
Attrs(props, analysis) ==
    join([k \in DOMAIN props |->
             Attr(props[k].name, generateSemanticValue(props[k], analysis))], "")

Example(title, description, code) ==
    [title |-> title, description |-> description, code |-> code,
     framework |-> "HTML/Web Components"]

Element(tagName, props, content) ==
    "<" \o tagName \o props \o ">" \o content \o "</" \o tagName \o ">"

\* the attribute of the primary content, by content strategy
PrimaryContent(analysis) ==
    LET primaryProp ==
           IF analysis.contentStrategy = "visible-first"
           THEN Slice(analysis.visibleTextProps, 1)
           ELSE IF analysis.contentStrategy = "form-label"
           THEN Found(<< Find(analysis.accessibilityProps,
                              LAMBDA q : q.name = "label") >>)
           ELSE << >>
    IN Attrs(SelectSeq(primaryProp,
                       LAMBDA q : ~Includes(analysis.requiredProps, q)), analysis)

\* the attributes of the essential configuration properties
EssentialConfig(analysis) ==
    IF Len(analysis.visibleTextProps) = 0 /\ Len(analysis.configProps) > 0
    THEN Attrs(SelectSeq(getEssentialConfigProps(analysis),
                         LAMBDA q : ~Includes(analysis.requiredProps, q)), analysis)
    ELSE ""

generateSemanticBasicExample(tagName, analysis) ==
    LET props == Attrs(analysis.requiredProps, analysis)
                    \o PrimaryContent(analysis) \o EssentialConfig(analysis)
        compositeInfo == detectCompositeComponent(tagName)
        content == IF compositeInfo # NULL
                   THEN generateCompositeChildren(ValueOf(compositeInfo))
                   ELSE generateSlotContent(analysis)
    IN Some(Example("Basic Usage",
                    "Simple example showing essential " \o analysis.inferredPurpose
                       \o " functionality",
                    Element(tagName, props, content)))

\* the attribute of the first visible text property, when there is one
ContentAttr(analysis) == Attrs(Slice(analysis.visibleTextProps, 1), analysis)

generateStateVariationExample(tagName, analysis) ==
    LET stateProps == Slice(analysis.stateProps, 2)
        names == [k \in DOMAIN stateProps |-> stateProps[k].name]
        props == ContentAttr(analysis)
                    \o join([k \in DOMAIN names |-> " " \o names[k]], "")
    IN IF Len(stateProps) = 0 THEN NULL
       ELSE Some(Example("With State Variations",
                         "Example showing different " \o join(names, " and ")
                            \o " states",
                         Element(tagName, props, "")))

\* mutant: the conditional example is implemented
generateConditionalExampleImplemented(tagName, analysis) ==
    Some(Example("With Conditional Content",
                 "Example showing conditional content",
                 Element(tagName, "", "")))

generateConditionalExample(tagName, analysis) == NULL

generateAccessibilityExample(tagName, analysis) ==
    IF ~analysis.hasAccessibilityEnhancements THEN NULL
    ELSE Some(Example("Accessibility Enhanced",
                      "Example with enhanced screen reader support and context",
                      Element(tagName,
                              ContentAttr(analysis)
                                 \o Attrs(Slice(analysis.accessibilityProps, 2),
                                          analysis),
                              "")))

generateFormContextExample(tagName, analysis) ==
    LET labels == SelectSeq(analysis.accessibilityProps, LAMBDA q : q.name = "label")
        props == Attrs(labels, analysis)
                    \o (IF Len(analysis.requiredProps) = 0
                        THEN " name=\"example-field\" required" ELSE "")
    IN IF ~analysis.isFormRelated THEN NULL
       ELSE Some(Example("In Form Context",
                         "Example showing proper form integration",
                         "<form>\n  " \o Element(tagName, props, "")
                            \o "\n  <va-button text=\"Submit\" submit></va-button>\n</form>"))

\* the generators generateExamples calls, in the order of the calls
Generators(analysis) ==
    << "generateSemanticBasicExample" >>
       \o (IF analysis.hasStates THEN << "generateStateVariationExample" >>
           ELSE << >>)
       \o (IF analysis.hasConditionalContent THEN << "generateConditionalExample" >>
           ELSE << >>)
       \o (IF analysis.hasAccessibilityEnhancements
           THEN << "generateAccessibilityExample" >> ELSE << >>)
       \o (IF analysis.isFormRelated THEN << "generateFormContextExample" >>
           ELSE << >>)

\* what a generator returns: NULL or <<example>>
Generated(generator, tagName, analysis) ==
    CASE generator = "generateSemanticBasicExample" ->
            generateSemanticBasicExample(tagName, analysis)
      [] generator = "generateStateVariationExample" ->
            generateStateVariationExample(tagName, analysis)
      [] generator = "generateConditionalExample" ->
            generateConditionalExample(tagName, analysis)
      [] generator = "generateAccessibilityExample" ->
            generateAccessibilityExample(tagName, analysis)
      [] generator = "generateFormContextExample" ->
            generateFormContextExample(tagName, analysis)

\* component.tagName || `va-${component.name.toLowerCase()}`
TagNameOf(component) ==
    IF component.tagName # NoTagName THEN component.tagName
    ELSE "va-" \o toLowerCase(component.name)

\* fault: the generator that fails unexpectedly (throws) when it is called,
\* "none" when every generator runs to its end.  No statement of
\* generateExamples catches what a generator throws.
Synthesized(tagName, analysis, called, fault) ==
    IF Includes(called, fault) THEN Failure(Foreign)
    ELSE Value(Found([k \in DOMAIN called |->
                         Generated(called[k], tagName, analysis)]))

\* the pushes of generateExamples and examples.filter(Boolean)
ExamplesFrom(tagName, analysis, fault) ==
    Synthesized(tagName, analysis, Generators(analysis), fault)

generateExamples(component, fault) ==
    ExamplesFrom(TagNameOf(component),
                 analyzeComponentSemantics(component.properties), fault)

\* the description of the component in the value returned
ComponentSummary(component) ==
    [name |-> component.name, tagName |-> component.tagName,
     status |-> component.status, maturityLevel |-> component.maturityLevel,
     recommendation |-> component.recommendation]

\* found: what getComponentByName resolved to, NULL or <<component>>
\* the value returned for a component and its examples; what the
\* generation threw is thrown on
WithExamples(component, examples) ==
    IF examples.kind = "error" THEN examples
    ELSE Value(Some([component |-> ComponentSummary(component),
                     examples |-> examples.value]))

getComponentExamples(found, fault) ==
    IF found = NULL THEN Value(NULL)
    ELSE WithExamples(ValueOf(found), generateExamples(ValueOf(found), fault))

\* official: what fetchVADesignSystemExamples resolved to, NULL or
\* <<examples>>; the catch block calls getComponentExamples with the same name
getOfficialExamples(found, official, fault) ==
    IF found = NULL THEN Value(NULL)
    ELSE IF official # NULL
    THEN Value(Some([component |-> ComponentSummary(ValueOf(found)),
                     examples |-> ValueOf(official)]))
    ELSE getComponentExamples(found, fault)

\* a component as parseComponentMetadata builds it
ExampleComponent(name, tagName, properties) ==
    [name |-> name, interfaceName |-> "Va" \o name,
     maturityCategory |-> "use", maturityLevel |-> "deployed",
     guidanceHref |-> "", translations |-> "",
     properties |-> properties,
     status |-> determineComponentStatus("use", "deployed"),
     recommendation |-> getRecommendation("use", "deployed"),
     tagName |-> tagName]

\* names and tag names: one tag for each composite pattern, a tag that
\* matches none, and a component without tag name
ExampleNames ==
    { << "Radio", NoTagName >>, << "Checkbox group", "va-checkbox-group" >>,
      << "Accordion", "va-accordion" >>, << "Button pair", "va-button-pair" >>,
      << "Table", "va-table" >>, << "Alert", "va-alert" >> }

\* properties that set the flags the generators depend on
ExampleProps ==
    {Prop("text", "string", TRUE),
     Prop("label", "string", TRUE),
     Prop("disabled", "boolean", TRUE),
     Prop("value", "string", FALSE),
     Prop("closeable", "boolean", TRUE),
     Prop("status", "'info' | 'warning'", TRUE)}

\* the examples read from a Storybook story file
StorybookExamples ==
    << [title |-> "Storybook Example 1",
        description |-> "Official example from packages/storybook/stories/va-alert.stories.js",
        code |-> "<va-alert status=\"info\"></va-alert>",
        framework |-> "HTML/Web Components", source |-> "storybook"] >>

ExampleFaults ==
    {"none", "generateSemanticBasicExample", "generateStateVariationExample",
     "generateFormContextExample"}

InitExamples ==
    /\ MonitorIdle
    /\ ClassifyIdle
    /\ ParseIdle
    /\ PropsIdle
    /\ ConfigIdle
    /\ ApiIdle
    /\ sa_properties = << >>
    /\ sa_analysis = NULL
    /\ \E op \in {"generateExamples", "getComponentExamples", "getOfficialExamples"},
          named \in ExampleNames,
          properties \in UNION {[1..n -> ExampleProps] : n \in 0..MaxProps},
          isFound \in BOOLEAN, official \in {NULL, Some(StorybookExamples)},
          fault \in ExampleFaults :
          /\ op = "generateExamples" => isFound
          /\ op # "getOfficialExamples" => official = NULL
          /\ ~isFound => (named = << "Alert", "va-alert" >> /\ properties = << >>
                            /\ fault = "none" /\ official = NULL)
          /\ ge_call = [op |-> op,
                        component |->
                           IF isFound
                           THEN Some(ExampleComponent(named[1], named[2], properties))
                           ELSE NULL,
                        official |-> official, fault |-> fault, outcome |-> NoOutcome]

GenerateExamples ==
    /\ ge_call.op = "generateExamples"
    /\ ge_call.outcome = NoOutcome
    /\ ge_call' = [ge_call EXCEPT
                     !.outcome = generateExamples(ValueOf(ge_call.component),
                                                  ge_call.fault)]
    /\ UNCHANGED <<sa_properties, sa_analysis, monitorVars, classifyVars, parseVars,
                   propsVars, cfg_options, api>>

GetComponentExamples ==
    /\ ge_call.op = "getComponentExamples"
    /\ ge_call.outcome = NoOutcome
    /\ ge_call' = [ge_call EXCEPT
                     !.outcome = getComponentExamples(ge_call.component,
                                                      ge_call.fault)]
    /\ UNCHANGED <<sa_properties, sa_analysis, monitorVars, classifyVars, parseVars,
                   propsVars, cfg_options, api>>

GetOfficialExamples ==
    /\ ge_call.op = "getOfficialExamples"
    /\ ge_call.outcome = NoOutcome
    /\ ge_call' = [ge_call EXCEPT
                     !.outcome = getOfficialExamples(ge_call.component,
                                                     ge_call.official,
                                                     ge_call.fault)]
    /\ UNCHANGED <<sa_properties, sa_analysis, monitorVars, classifyVars, parseVars,
                   propsVars, cfg_options, api>>

NextExamples ==
    \/ GenerateExamples
    \/ GetComponentExamples
    \/ GetOfficialExamples

SpecExamples == InitExamples /\ [][NextExamples]_vars

-----------------------------------------------------------------------------
(* Properties of the synthesized examples *)

\* the component the example operation was called for
CalledComponent == ValueOf(ge_call.component)

\* the operation returned examples that generateExamples made
ExamplesGenerated ==
    /\ ge_call.outcome.kind = "value"
    /\ ge_call.component # NULL
    /\ ge_call.official = NULL

\* the examples generateExamples made
GeneratedExamples ==
    IF ge_call.op = "generateExamples" THEN ge_call.outcome.value
    ELSE ValueOf(ge_call.outcome.value).examples

TitlesOf(examples) == [k \in DOMAIN examples |-> examples[k].title]

\* the titles the flags of the analysis call for
ExpectedTitles(analysis) ==
    << "Basic Usage" >>
       \o (IF analysis.hasStates THEN << "With State Variations" >> ELSE << >>)
       \o (IF analysis.hasAccessibilityEnhancements
           THEN << "Accessibility Enhanced" >> ELSE << >>)
       \o (IF analysis.isFormRelated THEN << "In Form Context" >> ELSE << >>)

\* C23: for every component the list generateExamples returns is not empty
\* and holds, in this order and with no other element, the example titled
\* "Basic Usage", a state-variation example exactly when hasStates, an
\* accessibility-enhanced example exactly when hasAccessibilityEnhancements
\* and a form-context example exactly when isFormRelated.
C23_ExamplesFollowFlags ==
    ExamplesGenerated
       => /\ GeneratedExamples # << >>
          /\ TitlesOf(GeneratedExamples)
                = ExpectedTitles(analyzeComponentSemantics(CalledComponent.properties))

\* disabled is a state, closeable marks conditional content: the list is
\* the basic and the state-variation example
C23_Witness ==
    /\ ge_call.op = "generateExamples"
    /\ ExamplesGenerated
    /\ CalledComponent.properties = << Prop("disabled", "boolean", TRUE),
                                       Prop("closeable", "boolean", TRUE) >>
    /\ TitlesOf(GeneratedExamples) = << "Basic Usage", "With State Variations" >>

\* the number of places of the text where the fragment occurs
Occurrences(text, fragment) ==
    Cardinality({i \in 1..(Len(text) - Len(fragment) + 1) :
                    SubSeq(text, i, i + Len(fragment) - 1) = fragment})

\* the text between the opening and the closing tag of an element
ElementBody(code, tagName) ==
    SubSeq(code, indexOf(code, ">") + 1, Len(code) - Len(tagName) - 3)

\* the text that opens a child element
ChildOpening(compositeInfo) ==
    "<" \o compositeInfo.childElement
        \o (IF compositeInfo.childProps = << >> THEN ">" ELSE " ")

\* the body holds the default number of children, each with a value that
\* is not empty for every property of the child template
HoldsChildren(body, compositeInfo) ==
    /\ Occurrences(body, ChildOpening(compositeInfo)) = compositeInfo.childCount.default
    /\ \A k \in DOMAIN compositeInfo.childProps :
          /\ Occurrences(body, " " \o compositeInfo.childProps[k] \o "=\"")
                = compositeInfo.childCount.default
          /\ Occurrences(body, " " \o compositeInfo.childProps[k] \o "=\"\"") = 0

\* C24: for a component whose tag name matches a composite pattern, the
\* body of the element of the Basic Usage example holds exactly the
\* pattern's default number of child elements of the pattern's child tag,
\* each with a non-empty value for every property of the child template:
\* for a tag matching the radio pattern, 3 va-radio-option children, each
\* with a non-empty label, name and value.
C24_CompositeChildren ==
    ExamplesGenerated
       => LET tagName == TagNameOf(CalledComponent)
              basic == Head(GeneratedExamples)
              body == ElementBody(basic.code, tagName)
          IN /\ basic.title = "Basic Usage"
             /\ \A n \in DOMAIN compositePatterns :
                   (/\ endsWith(tagName, compositePatterns[n].pattern)
                    /\ \A m \in 1..(n - 1) :
                          ~endsWith(tagName, compositePatterns[m].pattern))
                      => HoldsChildren(body, compositePatterns[n])
             /\ endsWith(tagName, "va-radio")
                   => /\ Occurrences(body, "<va-radio-option ") = 3
                      /\ \A name \in {"label", "name", "value"} :
                            /\ Occurrences(body, " " \o name \o "=\"") = 3
                            /\ Occurrences(body, " " \o name \o "=\"\"") = 0

\* the component named Radio has no tag name: its tag is va-radio and the
\* example holds the three options
C24_Witness ==
    /\ ge_call.op = "getComponentExamples"
    /\ ExamplesGenerated
    /\ CalledComponent.tagName = NoTagName
    /\ TagNameOf(CalledComponent) = "va-radio"
    /\ Occurrences(Head(GeneratedExamples).code, "<va-radio-option ") = 3

\* the generator that fails is one of those generateExamples calls
GeneratorFailed ==
    /\ ge_call.component # NULL
    /\ ge_call.official = NULL
    /\ Includes(Generators(analyzeComponentSemantics(CalledComponent.properties)),
                ge_call.fault)

-----------------------------------------------------------------------------
(* One caller over a server that may stall, with timers that fire when    *)
(* they are due.  fetchWithTimeout races the timeout against fetch(),     *)
(* which resolves with the response head; response.text() is awaited      *)
(* outside the race.                                                      *)

\* time passes until the pending timer of the call is due
TimePasses(c) ==
    /\ call[c].pc \in {"connecting", "backoff"}
    /\ clock < call[c].timer
    /\ clock' = call[c].timer
    /\ observed' = NothingObserved
    /\ UNCHANGED <<components, lastFetch, config, ticks, call, pureVars>>

NextTimers ==
    \/ \E forceRefresh \in BOOLEAN :
          clock = StartTime /\ GetComponents(1, forceRefresh) /\ UNCHANGED api
    \/ \E head \in Heads, githubToken \in BOOLEAN :
          ResponseArrives(1, head, githubToken) /\ UNCHANGED api
    \/ ConnectFails(1) /\ UNCHANGED api
    \/ TimeoutFires(1) /\ UNCHANGED api
    \/ \E content \in Docs : BodyArrives(1, content) /\ UNCHANGED api
    \/ BodyFails(1) /\ UNCHANGED api
    \/ RetryTimerFires(1) /\ UNCHANGED api
    \/ TimePasses(1) /\ UNCHANGED api

\* the event loop runs a timer that is due, and time does not stop; the
\* server owes nothing: no fairness on the arrival of the head or the body
TimersFair ==
    /\ WF_vars(TimePasses(1) /\ UNCHANGED api)
    /\ WF_vars(TimeoutFires(1) /\ UNCHANGED api)
    /\ WF_vars(RetryTimerFires(1) /\ UNCHANGED api)

SpecTimers == Init /\ [][NextTimers]_vars /\ TimersFair

\* C26: with timers that fire when due, every call of
\* fetchComponentDefinitions ends, by returning the text or by raising an
\* error, wherever the server stalls: an attempt ends at the latest when
\* its timeout timer fires.
C26_FetchEnds == InFlight(1) ~> ~InFlight(1)

\* an attempt whose response head does not arrive ends
HeadAwaited == (call[1].pc = "connecting") ~> (call[1].pc # "connecting")

-----------------------------------------------------------------------------
(* Properties of concurrent getComponents calls *)

\* the step completes a refresh of caller c: its continuation stores the
\* table and the timestamp
Completes(c) ==
    /\ call[c].pc = "reading"
    /\ call'[c].pc = "idle"
    /\ observed'.cause = "loaded"

\* C28: no gate joins concurrent refreshes: a call that starts while the
\* cache does not serve it makes its own fetch also when another call is
\* fetching, and the continuation of the call that completes writes both
\* the table and the timestamp, so that the pair left in the cache is the
\* pair of the call that completed last, never the table of one call with
\* the timestamp of the other.
C28_LastCompleterWritesBoth ==
    [][/\ \A c \in Callers :
             Completes(c)
                => /\ \E content \in Docs : components' = ParsedDocs[content]
                   /\ lastFetch' = Some(call[c].now)
       /\ (components' # components \/ lastFetch' # lastFetch)
             => \E c \in Callers : Completes(c)
       /\ \A c \in Callers :
             (observed'.phase = "started" /\ observed'.caller = c)
                => /\ call'[c].pc = "connecting"
                   /\ call'[c].attempts = 1
                   /\ UNCHANGED <<components, lastFetch>>]_vars

\* caller 1 started first and completed last: it replaced the later
\* timestamp of the call that completed before it, and the cache holds
\* its table with its timestamp
C28_Witness ==
    /\ observed.phase = "settled"
    /\ observed.cause = "loaded"
    /\ observed.caller = 1
    /\ observed.replaced # NULL
    /\ ValueOf(observed.replaced) > observed.now
    /\ lastFetch = Some(observed.now)
    /\ components = observed.result.table

\* C29: the cache timestamp never moves backwards: every write to
\* lastFetch stores a value greater than or equal to the value it
\* replaces.
C29_TimestampNeverDecreases ==
    [][lastFetch # NULL
          => (lastFetch' # NULL /\ ValueOf(lastFetch') >= ValueOf(lastFetch))]_vars

-----------------------------------------------------------------------------
(* The report and the readiness test over a monitor whose server answers   *)
(* with one of two documents or fails                                      *)

ReportDocs == {DocLookup, DocA}

NextReport ==
    \/ \E arg \in NameArguments : Call("isProductionReady", arg)
    \/ \E arg \in ForceRefreshArguments : Call("generateReport", arg)
    \/ Resume
    \/ /\ api.pc # "resuming"
       /\ \/ \E head \in ApiHeads : ResponseArrives(1, head, FALSE)
          \/ ConnectFails(1)
          \/ TimeoutFires(1)
          \/ \E content \in ReportDocs : BodyArrives(1, content)
          \/ BodyFails(1)
          \/ RetryTimerFires(1)
          \/ \E d \in TickDeltas : Tick(d)
       /\ api' = AfterStep(observed')

SpecReport == InitApi /\ [][NextReport]_vars

\* C27: isProductionReady resolves to a boolean for every valid name: true
\* exactly when a component is found and its status is RECOMMENDED or
\* STABLE, and false otherwise, also when no component is found.
C27_ReadinessIsBoolean ==
    (api.pc = "done" /\ api.op = "isProductionReady" /\ api.outcome.kind = "value")
       => LET found == SearchByName(api.awaited.table, SanitizedNames[api.arg])
          IN /\ typeof(api.outcome.value) = "boolean"
             /\ api.outcome.value.text = "true"
                   <=> /\ found # NULL
                       /\ ValueOf(found).status \in {"RECOMMENDED", "STABLE"}

\* the sum of the counts
RECURSIVE SumOf(_)
SumOf(counts) ==
    IF DOMAIN counts = {} THEN 0
    ELSE LET key == CHOOSE k \in DOMAIN counts : TRUE
         IN counts[key] + SumOf([k \in DOMAIN counts \ {key} |-> counts[k]])

\* C30: a report describes a single table: total is the sum of
\* statusCounts, the recommended list has statusCounts[RECOMMENDED] entries
\* (none when the key is absent), the caution list has as many entries as
\* the counted table has caution components, and lastUpdated is the
\* timestamp of that table, whatever happens to the cache while the report
\* is built.
C30_ReportDescribesOneTable ==
    (api.pc = "done" /\ api.op = "generateReport" /\ api.outcome.kind = "value")
       => LET report == api.outcome.value
              counted == api.results[1]
          IN /\ report.total = SumOf(report.statusCounts)
             /\ Len(report.recommended)
                   = IF "RECOMMENDED" \in DOMAIN report.statusCounts
                     THEN report.statusCounts["RECOMMENDED"] ELSE 0
             /\ Len(report.caution) = Len(CautionComponents(counted.table))
             /\ report.lastUpdated = counted.lastUpdated

====
